---- MODULE Spec2Model ----
(***************************************************************************)
(* The agent planner of pagi-backend-core: the HTTP handler handlePlan,   *)
(* the turn-bounded loop Planner.AgentLoop and the helpers it calls        *)
(* (RecordStep, PublishStatus, PublishNotification, tryParseToolCall,      *)
(* buildPlannerPrompt, buildFollowupPrompt, storeSessionDelta,             *)
(* storePlaybook, executeToolGRPC).                                        *)
(*                                                                         *)
(* A Go string is a sequence of pieces (TLA+ strings); concatenation is    *)
(* \o.  The empty string is <<>>.  A nil error is <<>> as well.            *)
(* Every operation a request issues on a collaborator is appended, with    *)
(* its outcome, to the request's operation log ops[r]; rows that the audit *)
(* store accepted are also in auditDB and messages the broker accepted in  *)
(* channel.                                                                *)
(***************************************************************************)
EXTENDS Integers, Sequences, FiniteSets, TLC

\* ---------------------------------------------------------------- bounds
\* Requests the HTTP server may serve.
NumReq == 2
\* Largest configured AGENT_MAX_TURNS tried (values 0 .. MaxCfgTurns; 0 is coerced).
MaxCfgTurns == 2
\* Faults injected into one request: failed best-effort calls and a cancellation.
MaxFaults == 1
\* Times the process is started, and times Planner.Close is called on one Planner.
MaxStarts == 2
MaxCloses == 2

Req == 1 .. NumReq

\* ---------------------------------------------------------------- strings
Str(s) == IF s = "" THEN <<>> ELSE <<s>>

\* Mutant: white space is not trimmed.
TrimSpace_Identity(s) == s

\* strings.TrimSpace on the names that occur here.
TrimSpace(s) == IF s \in {"", " ", "  "} THEN "" ELSE s

NoErr == <<>>

SentinelText == <<"Max turns reached; unable to complete request.">>

\* ---------------------------------------------------------------- JSON values
\* What encoding/json decodes into `any`: nil, string, float64, []any,
\* map[string]any.  GoNil is the nil interface and the nil map.
GoNil == [k |-> "nil"]
JStr(s) == [k |-> "string", s |-> s]
JNum(n) == [k |-> "number", n |-> n]
JArr(a) == [k |-> "array", a |-> a]
JObj(m) == [k |-> "object", m |-> m]
EmptyMap == [x \in {} |-> GoNil]

\* m[key] on a Go map: the zero value (nil) when the key is absent or the map is nil.
MapGet(v, key) ==
    IF v.k = "object" /\ key \in DOMAIN v.m THEN v.m[key] ELSE GoNil

\* The replies the model gateway may give, as plan strings.
ToolSearch == "{\"tool\":{\"name\":\"search\",\"args\":{\"q\":\"foo\"}}}"
ToolNoArgs == "{\"tool\":{\"name\":\"t\"}}"
ToolNullArgs == "{\"tool\":{\"name\":\"t\",\"args\":null}}"
ToolArrayArgs == "{\"tool\":{\"name\":\"t\",\"args\":[1]}}"
ToolPadded == " {\"tool\":{\"name\":\"t\",\"args\":{}}} "
FinalText == "hi there"
FinalNoTool == "{\"answer\":\"bar\"}"
FinalToolString == "{\"tool\":\"search\"}"
FinalEmptyName == "{\"tool\":{\"name\":\"\",\"args\":{}}}"
FinalBlankName == "{\"tool\":{\"name\":\"  \"}}"
FinalNumberName == "{\"tool\":{\"name\":7}}"
FinalNull == "null"
FinalArray == "[1]"
FinalProse == "Sure: {\"tool\":{\"name\":\"search\"}}"

ToolPlans == {ToolSearch, ToolNoArgs, ToolNullArgs, ToolArrayArgs, ToolPadded}
FinalPlans == {"", FinalText, FinalNoTool, FinalToolString, FinalEmptyName, FinalBlankName,
               FinalNumberName, FinalNull, FinalArray, FinalProse}
PlanTexts == ToolPlans \cup FinalPlans

\* What the model gateway's LLM may write as the content of its reply.  ''' stands
\* for the Markdown fence of three backquotes.
GwRaw == "{\"steps\":[\"a\",\"b\"],\"prompt\":\"x\"}"
GwBare == "{\"steps\":[\"a\"]}"
GwPadded == " {\"steps\":[\"a\"]} \n"
GwFenced == "'''json\n{\"steps\":[\"a\"]}\n'''"
GwProse == "Search the web."
GwToolAndSteps == "{\"tool\":{\"name\":\"search\"},\"steps\":[\"a\"]}"
GwBareTool == "{\"tool\":{\"name\":\"search\"}}"
GwFencedTool == "'''\n{\"tool\":{\"name\":\"search\"}}\n'''"
GwEmptySteps == "{\"steps\":[]}"
GwStepsString == "{\"steps\":\"a\"}"
GwContents == {GwRaw, GwPadded, GwFenced, GwProse, ToolSearch, GwToolAndSteps, GwFencedTool,
               GwEmptySteps, GwStepsString, ""}

\* The body of a JSON string literal for one piece of text, as json.Marshal writes it:
\* the quote and the backslash are escaped, a line feed is written \n, and < and >
\* are written \u003c and \u003e.  Pieces without such characters stay as they are.
JsonEscape(s) ==
    CASE s = "<session_history>\n" -> "\\u003csession_history\\u003e\\n"
      [] s = "</session_history>\n\n" -> "\\u003c/session_history\\u003e\\n\\n"
      [] s = "<rag_context>\n" -> "\\u003crag_context\\u003e\\n"
      [] s = "</rag_context>\n\n" -> "\\u003c/rag_context\\u003e\\n\\n"
      [] s = "<user_prompt>\n" -> "\\u003cuser_prompt\\u003e\\n"
      [] s = "\n</user_prompt>\n" -> "\\n\\u003c/user_prompt\\u003e\\n"
      [] s = "\n" -> "\\n"
      [] s = "**\n" -> "**\\n"
      [] s = "\n---\n" -> "\\n---\\n"
      [] s = ToolSearch -> "{\\\"tool\\\":{\\\"name\\\":\\\"search\\\",\\\"args\\\":{\\\"q\\\":\\\"foo\\\"}}}"
      [] s = GwFencedTool -> "'''\\n{\\\"tool\\\":{\\\"name\\\":\\\"search\\\"}}\\n'''"
      [] s = GwEmptySteps -> "{\\\"steps\\\":[]}"
      [] s = GwStepsString -> "{\\\"steps\\\":\\\"a\\\"}"
      [] OTHER -> s

\* json.Marshal of a Go string (a sequence of pieces): a quote, the escaped pieces,
\* a quote.
MarshalString(p) == <<"\"">> \o [i \in DOMAIN p |-> JsonEscape(p[i])] \o <<"\"">>

\* json.Marshal of a []string.
RECURSIVE MarshalElements(_)
MarshalElements(a) ==
    IF a = <<>> THEN <<>>
    ELSE MarshalString(Head(a))
         \o (IF Tail(a) = <<>> THEN <<>> ELSE <<",">> \o MarshalElements(Tail(a)))
MarshalStrings(a) == <<"[">> \o MarshalElements(a) \o <<"]">>

\* json.Marshal of a map[string]any given as a sequence of <<key, encoded value>> in
\* the sorted order of the keys.
RECURSIVE MarshalFields(_)
MarshalFields(f) ==
    IF f = <<>> THEN <<>>
    ELSE <<"\"" , Head(f)[1], "\":">> \o Head(f)[2]
         \o (IF Tail(f) = <<>> THEN <<>> ELSE <<",">> \o MarshalFields(Tail(f)))
MarshalObject(f) == <<"{">> \o MarshalFields(f) \o <<"}">>

\* The text is an encoded object as MarshalObject writes it.
IsMarshalledObject(text) == Len(text) >= 2 /\ text[1] = "{" /\ text[Len(text)] = "}"
\* The positions of the keys of the encoded object: a key is a piece between a quote and
\* a quote-colon that follows the opening brace or a comma.
KeyPositions(text) ==
    {i \in 3 .. Len(text) - 1 :
        /\ text[i - 1] = "\"" /\ text[i + 1] = "\":"
        /\ text[i - 2] \in {"{", ","}}
\* The value that follows the key at position i, decoded as far as its kind: a string
\* (with its pieces, still escaped), an array (of as many strings as it has elements)
\* or an object.
DecodedValue(text, i) ==
    LET first == text[i + 2]
        close(c) == CHOOSE j \in i + 3 .. Len(text) :
                       text[j] = c /\ \A k \in i + 3 .. j - 1 : text[k] # c
    IN  CASE first = "\"" -> JStr(SubSeq(text, i + 3, close("\"") - 1))
          [] first = "[" ->
                JArr([k \in 1 .. Cardinality({j \in i + 3 .. close("]") : text[j] = "\""}) \div 2
                        |-> JStr(<<>>)])
          [] first = "{" -> JObj(EmptyMap)
          [] OTHER -> GoNil
DecodeObject(text) ==
    JObj([key \in {text[i] : i \in KeyPositions(text)} |->
            DecodedValue(text, CHOOSE i \in KeyPositions(text) : text[i] = key)])

\* json.Unmarshal([]byte(planJSON), &raw) with raw a map[string]any:
\* [err |-> TRUE] when the text is no JSON or its top level is no object;
\* the text null leaves raw nil without an error.
JsonUnmarshal(text) ==
    LET s == IF text = <<>> THEN "" ELSE text[1]
        obj(v) == [err |-> FALSE, raw |-> v]
        tool(m) == obj(JObj([tool |-> JObj(m)]))
    IN  IF IsMarshalledObject(text) THEN obj(DecodeObject(text))
        ELSE IF Len(text) > 1 THEN [err |-> TRUE, raw |-> GoNil]
        ELSE CASE s = ToolSearch -> tool([name |-> JStr("search"), args |-> JObj([q |-> JStr("foo")])])
               [] s = ToolNoArgs -> tool([name |-> JStr("t")])
               [] s = ToolNullArgs -> tool([name |-> JStr("t"), args |-> GoNil])
               [] s = ToolArrayArgs -> tool([name |-> JStr("t"), args |-> JArr(<<JNum(1)>>)])
               [] s = ToolPadded -> tool([name |-> JStr("t"), args |-> JObj(EmptyMap)])
               [] s = FinalNoTool -> obj(JObj([answer |-> JStr("bar")]))
               [] s = FinalToolString -> obj(JObj([tool |-> JStr("search")]))
               [] s = FinalEmptyName -> tool([name |-> JStr(""), args |-> JObj(EmptyMap)])
               [] s = FinalBlankName -> tool([name |-> JStr("  ")])
               [] s = FinalNumberName -> tool([name |-> JNum(7)])
               [] s = FinalNull -> obj(GoNil)
               [] OTHER -> [err |-> TRUE, raw |-> GoNil]

\* json.Marshal of a map[string]any holding tool arguments.
JsonMarshal(v) ==
    CASE v.k = "nil" -> <<"null">>
      [] v.k = "object" /\ DOMAIN v.m = {} -> <<"{}">>
      [] v.k = "object" /\ DOMAIN v.m = {"q"} -> <<"{\"q\":\"", v.m["q"].s, "\"}">>
      [] OTHER -> <<"?">>

\* ---------------------------------------------------------------- Plan Interpreter
NoToolCall == [nil |-> TRUE, Name |-> "", Args |-> GoNil]

\* Mutant: the name of the tool is not looked at.
tryParseToolCall_AnyName(planJSON) ==
    LET u == JsonUnmarshal(planJSON)
        toolAny == MapGet(u.raw, "tool")
        nameAny == MapGet(toolAny, "name")
        name == IF nameAny.k = "string" THEN nameAny.s ELSE ""
        argsAny == MapGet(toolAny, "args")
        args == IF argsAny.k = "object" THEN argsAny ELSE GoNil
    IN  IF u.err \/ toolAny.k # "object" THEN NoToolCall
        ELSE [nil |-> FALSE, Name |-> name, Args |-> args]

tryParseToolCall(planJSON) ==
    LET u == JsonUnmarshal(planJSON)
        toolAny == MapGet(u.raw, "tool")
        ok == toolAny.k = "object"
        nameAny == MapGet(toolAny, "name")
        name == IF nameAny.k = "string" THEN nameAny.s ELSE ""
        argsAny == MapGet(toolAny, "args")
        args == IF argsAny.k = "object" THEN argsAny ELSE GoNil
    IN  IF u.err THEN NoToolCall
        ELSE IF ~ok THEN NoToolCall
        ELSE IF TrimSpace(name) = "" THEN NoToolCall
        ELSE [nil |-> FALSE, Name |-> name, Args |-> args]

\* ---------------------------------------------------------------- Model Gateway
\* The providers initializeLLMClient accepts.
Providers == {"openrouter", "ollama"}

\* strings.TrimSpace on the contents above.
GwTrimSpace(s) == IF s = GwPadded THEN GwBare ELSE s
\* strings.HasPrefix(s, "{").
HasBracePrefix(s) ==
    s \in {GwRaw, GwBare, ToolSearch, GwToolAndSteps, GwBareTool, GwEmptySteps, GwStepsString}
\* json.Unmarshal into struct{Steps []string; Prompt string}: keys it does not know
\* are skipped, a value of the wrong type is an error.
DecodeSteps(s) ==
    CASE s = GwRaw -> [err |-> FALSE, Steps |-> <<Str("a"), Str("b")>>]
      [] s \in {GwBare, GwToolAndSteps} -> [err |-> FALSE, Steps |-> <<Str("a")>>]
      [] s \in {ToolSearch, GwBareTool, GwEmptySteps} -> [err |-> FALSE, Steps |-> <<>>]
      [] OTHER -> [err |-> TRUE, Steps |-> <<>>]
\* stripFences: the first line and the last fence of a fenced block are dropped.
stripFences(s) ==
    CASE s = GwFenced -> GwBare
      [] s = GwFencedTool -> GwBareTool
      [] OTHER -> GwTrimSpace(s)

\* The payload GetPlan encodes: keys in sorted order.
GatewayPayload(provider, steps, prompt) ==
    MarshalObject(<< <<"model_type", MarshalString(Str(provider))>>,
                     <<"prompt", MarshalString(prompt)>>,
                     <<"steps", MarshalStrings(steps)>> >>)

normalizeJSON(raw, provider, prompt) ==
    LET candidate == GwTrimSpace(raw)
        decoded == DecodeSteps(candidate)
    IN  IF ~HasBracePrefix(candidate) THEN [ok |-> FALSE, text |-> <<>>]
        ELSE IF decoded.err THEN [ok |-> FALSE, text |-> <<>>]
        ELSE IF Len(decoded.Steps) = 0 THEN [ok |-> FALSE, text |-> <<>>]
        ELSE [ok |-> TRUE, text |-> GatewayPayload(provider, decoded.Steps, prompt)]

\* Mutant: a reply that is a JSON object without steps is passed on as it is.
serverGetPlan_ObjectKept(content, provider, prompt) ==
    LET trimmed == GwTrimSpace(content)
        raw == normalizeJSON(trimmed, provider, prompt)
        fenced == normalizeJSON(stripFences(trimmed), provider, prompt)
    IN  IF raw.ok THEN raw.text
        ELSE IF fenced.ok THEN fenced.text
        ELSE IF HasBracePrefix(trimmed) /\ ~DecodeSteps(trimmed).err THEN Str(trimmed)
        ELSE GatewayPayload(provider, <<Str(trimmed)>>, prompt)

\* server.GetPlan, from the content of the LLM's reply on: the plan it returns.
serverGetPlan(content, provider, prompt) ==
    LET trimmed == GwTrimSpace(content)
        raw == normalizeJSON(trimmed, provider, prompt)
        fenced == normalizeJSON(stripFences(trimmed), provider, prompt)
    IN  IF raw.ok THEN raw.text
        ELSE IF fenced.ok THEN fenced.text
        ELSE GatewayPayload(provider, <<Str(trimmed)>>, prompt)

\* ---------------------------------------------------------------- prompts
RECURSIVE HistoryLines(_)
HistoryLines(history) ==
    IF history = <<>> THEN <<>>
    ELSE LET m == Head(history)
         IN  (IF m.role # "" \/ m.content # ""
                 THEN Str(m.role) \o <<": ">> \o Str(m.content) \o <<"\n">>
                 ELSE <<>>)
             \o HistoryLines(Tail(history))

RECURSIVE MatchBlocks(_)
MatchBlocks(matches) ==
    IF matches = <<>> THEN <<>>
    ELSE LET m == Head(matches)
         IN  <<"**">> \o Str(m.kb) \o <<"**\n", "ID: ">> \o Str(m.id) \o <<"\n", "Text: ">>
             \o Str(m.text) \o <<"\n---\n">> \o MatchBlocks(Tail(matches))

\* rag is [nil |-> TRUE] for a nil response, else [nil |-> FALSE, matches |-> ...].
NilRag == [nil |-> TRUE, matches |-> <<>>]

buildPlannerPrompt(userPrompt, history, rag) ==
    <<"<session_history>\n">> \o HistoryLines(history) \o <<"</session_history>\n\n">>
    \o <<"<rag_context>\n">> \o (IF rag.nil THEN <<>> ELSE MatchBlocks(rag.matches))
    \o <<"</rag_context>\n\n">>
    \o <<"<user_prompt>\n">> \o userPrompt \o <<"\n</user_prompt>\n">>

buildFollowupPrompt(originalPrompt, plan, toolResult) ==
    originalPrompt \o <<"\n\n<plan>\n">> \o plan \o <<"\n</plan>\n\n<tool_result>\n">>
    \o toolResult \o <<"\n</tool_result>\n">>

\* json.Marshal of {"status", "stdout", "stderr"}: keys in sorted order.
MarshalToolOut(resp) ==
    <<"{\"status\":\"">> \o Str(resp.status) \o <<"\",\"stderr\":\"">> \o Str(resp.stderr)
    \o <<"\",\"stdout\":\"">> \o Str(resp.stdout) \o <<"\"}">>

\* ---------------------------------------------------------------- environment
\* What the caller may send: body fields and the X-Trace-ID header.
ReqPrompts == {<<>>, <<"hello">>}
ReqSessions == {<<>>, <<"s1">>}
ReqTraceHeaders == {<<>>, <<"tc">>}
\* uuid.New().String(): a value no other request gets.
NewUUID(r) == <<"uuid-", ToString(r)>>

\* What the memory service may return.
Histories == {<<>>, <<[role |-> "user", content |-> "earlier"], [role |-> "", content |-> ""]>>}
RagReplies == {[nil |-> FALSE, matches |-> <<>>],
               [nil |-> FALSE, matches |-> <<[kb |-> "Mind-KB", id |-> "d1", text |-> "fact"]>>]}
\* What the model gateway may return, and the errors of its RPC.
ModelReplies == {FinalText, "", ToolSearch}
RpcError == <<"rpc error: code = Unavailable">>
CtxCanceled == <<"context canceled">>
\* What the sandbox may return.
SandboxReplies == {[status |-> "ok", stdout |-> "bar", stderr |-> ""],
                   [status |-> "error", stdout |-> "", stderr |-> "boom"]}

\* ---------------------------------------------------------------- Planner lifecycle
\* The resources of a Planner, in the order in which NewPlanner acquires them.
Resources == <<"modelConn", "memoryConn", "rustConn", "auditDB", "redis">>
ResourceNames == {Resources[i] : i \in DOMAIN Resources}
\* The steps of NewPlanner that return an error when they fail.
FatalSteps == {"modelConn", "memoryConn", "rustConn", "auditDB"}
IndexOf(x) == CHOOSE i \in DOMAIN Resources : Resources[i] = x
Reverse(q) == [i \in DOMAIN q |-> q[Len(q) + 1 - i]]

\* The events of the lifecycle: a resource is acquired; Close() is called on a
\* resource (`again`: it was closed before, the error of that call is dropped).
Acquire(x) == [ev |-> "acquire", res |-> x, again |-> FALSE]
Release(x, again) == [ev |-> "release", res |-> x, again |-> again]
AcquireAll(q) == [i \in DOMAIN q |-> Acquire(q[i])]
ReleaseAll(q) == [i \in DOMAIN q |-> Release(q[i], FALSE)]

\* No process yet.  state: "down", "up" (NewPlanner returned a Planner), "failed"
\* (NewPlanner returned an error, exit 1), "closed" (Planner.Close was called),
\* "exited" (os.Exit(1) on a forced shutdown).  res: each resource "none", "open" or
\* "closed".  trace: the acquire / release events of this process, in order.
NoPlanner ==
    [state |-> "down", res |-> [x \in ResourceNames |-> "none"], trace |-> <<>>,
     failedAt |-> "none", pingOk |-> FALSE, starts |-> 0, closeCalls |-> 0]

\* Mutant: a failed startup returns without closing what it had acquired.
NewPlannerResult_Leaky(failedAt, pingOk, starts) ==
    LET failed == failedAt \in FatalSteps
        acquired == SubSeq(Resources, 1, IF failed THEN IndexOf(failedAt) - 1 ELSE 4)
        got == {acquired[i] : i \in DOMAIN acquired}
    IN  IF failed
           THEN [state |-> "failed",
                 res |-> [x \in ResourceNames |-> IF x \in got THEN "open" ELSE "none"],
                 trace |-> AcquireAll(acquired),
                 failedAt |-> failedAt, pingOk |-> FALSE, starts |-> starts, closeCalls |-> 0]
           ELSE [state |-> "up",
                 res |-> [x \in ResourceNames |->
                            IF x = "redis" /\ ~pingOk THEN "closed" ELSE "open"],
                 trace |-> AcquireAll(Resources)
                           \o (IF pingOk THEN <<>> ELSE <<Release("redis", FALSE)>>),
                 failedAt |-> "none", pingOk |-> pingOk, starts |-> starts, closeCalls |-> 0]

\* Mutant: a broker that does not answer the ping fails the startup.
NewPlannerResult_PingFatal(failedAt, pingOk, starts) ==
    LET failed == failedAt \in FatalSteps
        acquired == SubSeq(Resources, 1, IF failed THEN IndexOf(failedAt) - 1 ELSE 4)
        got == {acquired[i] : i \in DOMAIN acquired}
    IN  IF failed \/ ~pingOk
           THEN [state |-> "failed",
                 res |-> [x \in ResourceNames |-> IF x \in got THEN "closed" ELSE "none"],
                 trace |-> AcquireAll(acquired) \o ReleaseAll(Reverse(acquired)),
                 failedAt |-> failedAt, pingOk |-> FALSE, starts |-> starts, closeCalls |-> 0]
           ELSE [state |-> "up",
                 res |-> [x \in ResourceNames |->
                            IF x = "redis" /\ ~pingOk THEN "closed" ELSE "open"],
                 trace |-> AcquireAll(Resources)
                           \o (IF pingOk THEN <<>> ELSE <<Release("redis", FALSE)>>),
                 failedAt |-> "none", pingOk |-> pingOk, starts |-> starts, closeCalls |-> 0]

\* NewPlanner when the step failedAt fails ("none": no step does) and the broker
\* answers the ping or not: the connections are dialled and the audit DB is opened in
\* order; a failure closes what was acquired, last first, and returns an error; the
\* broker client is created last and, when the ping fails, closed and set to nil.
NewPlannerResult(failedAt, pingOk, starts) ==
    LET failed == failedAt \in FatalSteps
        acquired == SubSeq(Resources, 1, IF failed THEN IndexOf(failedAt) - 1 ELSE 4)
        got == {acquired[i] : i \in DOMAIN acquired}
    IN  IF failed
           THEN [state |-> "failed",
                 res |-> [x \in ResourceNames |-> IF x \in got THEN "closed" ELSE "none"],
                 trace |-> AcquireAll(acquired) \o ReleaseAll(Reverse(acquired)),
                 failedAt |-> failedAt, pingOk |-> FALSE, starts |-> starts, closeCalls |-> 0]
           ELSE [state |-> "up",
                 res |-> [x \in ResourceNames |->
                            IF x = "redis" /\ ~pingOk THEN "closed" ELSE "open"],
                 trace |-> AcquireAll(Resources)
                           \o (IF pingOk THEN <<>> ELSE <<Release("redis", FALSE)>>),
                 failedAt |-> "none", pingOk |-> pingOk, starts |-> starts, closeCalls |-> 0]

\* The Planner of a process that started: every step of NewPlanner succeeded, the
\* broker answered the ping or not.
StartedPlanner(up) == NewPlannerResult("none", up, 1)

\* ---------------------------------------------------------------- state
VARIABLES
    env,           \* what the collaborators and callers of this run may do: the model's
                   \* replies, the X-Trace-ID headers sent, the faults injected
    cfgMaxTurns,   \* Config.MaxTurns, read once at startup
    redisUp,       \* Planner.redis # nil
    planner,       \* the process and its Planner: what NewPlanner acquired, what was released
    auditDB,       \* rows of the audit table, in insertion order
    channel,       \* messages the broker accepted on pagi_notifications
    pc,            \* where each request is in handlePlan / AgentLoop
    cancelled,     \* the request context is cancelled
    xTraceID,      \* the X-Trace-ID header: [sent] by the caller, [echoed] in the response
    planReq,       \* handlePlan: req, the decoded body, and whether decoding succeeded
    traceID,       \* ctx.Value(TraceIDKey)
    sessionID,     \* req.SessionID
    basePrompt,    \* AgentLoop: basePrompt
    prompt,        \* AgentLoop: prompt (the working prompt)
    turn,          \* AgentLoop: turn
    maxTurns,      \* AgentLoop: maxTurns
    playbookSeq,   \* AgentLoop: playbookSeq
    hadToolStep,   \* AgentLoop: hadToolStep
    history,       \* AgentLoop: history
    rag,           \* AgentLoop: rag
    plannerInput,  \* AgentLoop: plannerInput
    plan,          \* AgentLoop: planResp.GetPlan()
    toolCall,      \* AgentLoop: toolCall
    toolOut,       \* AgentLoop: toolOut
    callErr,       \* AgentLoop: err of the last GetPlan / executeTool
    ret,           \* what AgentLoop returned: [result, err]
    resp,          \* the HTTP response: [status, body]
    ops            \* every collaborator operation the request issued, in order

shared == <<env, cfgMaxTurns, redisUp, planner>>
stores == <<auditDB, channel>>
inputs == <<xTraceID, planReq, traceID, sessionID, basePrompt>>
locals == <<prompt, turn, maxTurns, playbookSeq, hadToolStep>>
iter == <<history, rag, plannerInput, plan, toolCall, toolOut, callErr>>
vars == <<env, cfgMaxTurns, redisUp, planner, auditDB, channel, pc, cancelled, xTraceID, planReq,
          traceID, sessionID, basePrompt, prompt, turn, maxTurns, playbookSeq, hadToolStep, history, rag,
          plannerInput, plan, toolCall, toolOut, callErr, ret, resp, ops>>

NoRet == [returned |-> FALSE, result |-> <<>>, err |-> NoErr]
NoResp == [status |-> 0, body |-> <<>>]
\* var req PlanRequest before the body is decoded.
ZeroPlanRequest == [decoded |-> FALSE, Prompt |-> <<>>, SessionID |-> <<>>]

InitRequests ==
    /\ cancelled = [r \in Req |-> FALSE]
    /\ xTraceID = [r \in Req |-> [sent |-> <<>>, echoed |-> <<>>]]
    /\ planReq = [r \in Req |-> ZeroPlanRequest]
    /\ traceID = [r \in Req |-> <<>>]
    /\ sessionID = [r \in Req |-> <<>>]
    /\ basePrompt = [r \in Req |-> <<>>]
    /\ prompt = [r \in Req |-> <<>>]
    /\ turn = [r \in Req |-> 0]
    /\ maxTurns = [r \in Req |-> 0]
    /\ playbookSeq = [r \in Req |-> <<>>]
    /\ hadToolStep = [r \in Req |-> FALSE]
    /\ history = [r \in Req |-> <<>>]
    /\ rag = [r \in Req |-> NilRag]
    /\ plannerInput = [r \in Req |-> <<>>]
    /\ plan = [r \in Req |-> <<>>]
    /\ toolCall = [r \in Req |-> NoToolCall]
    /\ toolOut = [r \in Req |-> <<>>]
    /\ callErr = [r \in Req |-> NoErr]
    /\ ret = [r \in Req |-> NoRet]
    /\ resp = [r \in Req |-> NoResp]
    /\ ops = [r \in Req |-> <<>>]
    /\ auditDB = <<>>
    /\ channel = <<>>

\* One request at a time: request 1 arrives without an X-Trace-ID header, the
\* others never do.
Init ==
    /\ InitRequests
    /\ env = [replies |-> ModelReplies, headers |-> {<<>>}, maxFaults |-> MaxFaults]
    /\ cfgMaxTurns \in 0 .. MaxCfgTurns
    /\ redisUp \in BOOLEAN
    /\ planner = StartedPlanner(redisUp)
    /\ pc = [r \in Req |-> IF r = 1 THEN "idle" ELSE "off"]

\* ---------------------------------------------------------------- collaborators
BestEffortOps == {"audit", "publish", "history", "rag", "store", "playbook"}

\* Faults injected into request r so far: its best-effort operations that failed
\* and the cancellation of its context.
InjectedFaults(r) ==
    Cardinality({i \in DOMAIN ops[r] : ops[r][i].op \in BestEffortOps /\ ~ops[r][i].ok})
    + (IF cancelled[r] THEN 1 ELSE 0)

\* The outcomes a best-effort call on a collaborator may have: every call made
\* with a cancelled context fails; otherwise it may fail or succeed.
Outcomes(r) ==
    IF cancelled[r] THEN {FALSE}
    ELSE IF InjectedFaults(r) < env.maxFaults THEN {TRUE, FALSE}
    ELSE {TRUE}

Issue(r, o) == ops' = [ops EXCEPT ![r] = Append(@, o)]

\* What the memory service, the model gateway and the sandbox may answer request r
\* in its current turn: anything they can answer, unless the run pins their answers
\* (env.script: the memory's answers, and per turn the model's and the sandbox's).
Pinned == "script" \in DOMAIN env
HistoryAnswers(r) == IF Pinned THEN {env.script.history} ELSE Histories
RagAnswers(r) == IF Pinned THEN {env.script.rag} ELSE RagReplies
ModelFails(r) == IF Pinned THEN {env.script.turns[turn[r]].modelFails} ELSE BOOLEAN
ModelAnswers(r) == IF Pinned THEN {env.script.turns[turn[r]].reply} ELSE env.replies
\* The plans the model client may return to request r: the replies above, or, when
\* the model gateway of this repository is the server (env.gateway: its provider and
\* what its LLM may write), what server.GetPlan makes of the planner input.
PlanAnswers(r) ==
    IF "gateway" \in DOMAIN env
       THEN {serverGetPlan(c, env.gateway.provider, plannerInput[r]) : c \in env.gateway.contents}
       ELSE {Str(reply) : reply \in ModelAnswers(r)}
SandboxFails(r) == IF Pinned THEN {env.script.turns[turn[r]].sandboxFails} ELSE BOOLEAN
SandboxAnswers(r) == IF Pinned THEN {env.script.turns[turn[r]].sandbox} ELSE SandboxReplies

\* The outcomes a write to the audit store may have: those of any best-effort call,
\* unless the run says for which requests the audit store fails at will
\* (env.auditFails) while it serves the others.
AuditOutcomes(r) ==
    IF "auditFails" \in DOMAIN env
       THEN IF r \in env.auditFails THEN BOOLEAN ELSE {TRUE}
       ELSE Outcomes(r)

\* Mutant: the trace id is read from a place all requests share (request 1 wrote it).
RecordStep_SharedTrace(r, eventType, tool, text, args, ok) ==
    LET row == [trace_id |-> traceID[1], session_id |-> sessionID[r],
                event_type |-> eventType,
                payload |-> [tool |-> tool, text |-> text, args |-> args]]
    IN  /\ Issue(r, [op |-> "audit", type |-> eventType, trace |-> traceID[1],
                     session |-> sessionID[r], tool |-> tool, text |-> text,
                     args |-> args, ok |-> ok])
        /\ auditDB' = IF ok THEN Append(auditDB, row) ELSE auditDB

\* Planner.RecordStep: one row in the audit table, or an error the caller drops.
RecordStep(r, eventType, tool, text, args, ok) ==
    LET row == [trace_id |-> traceID[r], session_id |-> sessionID[r],
                event_type |-> eventType,
                payload |-> [tool |-> tool, text |-> text, args |-> args]]
    IN  /\ Issue(r, [op |-> "audit", type |-> eventType, trace |-> traceID[r],
                     session |-> sessionID[r], tool |-> tool, text |-> text,
                     args |-> args, ok |-> ok])
        /\ auditDB' = IF ok THEN Append(auditDB, row) ELSE auditDB

\* Planner.PublishStatus / Planner.PublishNotification: nothing is sent when the
\* broker client is nil; otherwise one message, or an error the caller drops.
Publish(r, form, text, ok) ==
    LET msg == [trace_id |-> traceID[r], session_id |-> sessionID[r],
                form |-> form, text |-> text]
        sent == redisUp /\ ok
    IN  /\ Issue(r, [op |-> "publish", form |-> form, trace |-> traceID[r],
                     session |-> sessionID[r], text |-> text,
                     noop |-> ~redisUp, ok |-> redisUp => ok])
        /\ channel' = IF sent THEN Append(channel, msg) ELSE channel

PublishStatus(r, status, ok) == Publish(r, "status", status, ok)

PublishNotification(r, result, ok) == Publish(r, "result", result, ok)

\* Planner.storeSessionDelta: POST /memory/store.
storeSessionDelta(r, userPrompt, assistantText, ok) ==
    Issue(r, [op |-> "store", session |-> sessionID[r], user |-> userPrompt,
              assistant |-> assistantText, ok |-> ok])

\* Planner.storePlaybook: POST /memory/playbook unless the sequence is shorter than 3.
storePlaybook(r, promptText, historySequence, ok) ==
    IF Len(historySequence) < 3
        THEN UNCHANGED ops
        ELSE Issue(r, [op |-> "playbook", session |-> sessionID[r], prompt |-> promptText,
                       history_sequence |-> historySequence, ok |-> ok])

\* ---------------------------------------------------------------- handlePlan
\* Mutant: only the prompt is required; an empty session id reaches AgentLoop.
HandlePlan_SessionUnchecked(r) ==
    /\ pc[r] = "idle"
    /\ \E hdr \in env.headers, bodyOk \in BOOLEAN, p \in ReqPrompts, s \in ReqSessions :
          /\ LET id == IF hdr = <<>> THEN NewUUID(r) ELSE hdr
             IN  /\ xTraceID' = [xTraceID EXCEPT ![r] = [sent |-> hdr, echoed |-> id]]
                 /\ traceID' = [traceID EXCEPT ![r] = id]
          /\ planReq' = [planReq EXCEPT ![r] = [decoded |-> bodyOk, Prompt |-> p, SessionID |-> s]]
          /\ IF ~bodyOk
                THEN /\ p = <<>> /\ s = <<>>
                     /\ resp' = [resp EXCEPT ![r] = [status |-> 400, body |-> <<"Invalid request body">>]]
                     /\ pc' = [pc EXCEPT ![r] = "done"]
                     /\ UNCHANGED <<sessionID, basePrompt, prompt>>
                ELSE IF p = <<>>
                THEN /\ resp' = [resp EXCEPT ![r] = [status |-> 400,
                                    body |-> <<"Prompt and session_id are required">>]]
                     /\ pc' = [pc EXCEPT ![r] = "done"]
                     /\ UNCHANGED <<sessionID, basePrompt, prompt>>
                ELSE /\ sessionID' = [sessionID EXCEPT ![r] = s]
                     /\ basePrompt' = [basePrompt EXCEPT ![r] = p]
                     /\ prompt' = [prompt EXCEPT ![r] = p]
                     /\ pc' = [pc EXCEPT ![r] = "plan_start"]
                     /\ UNCHANGED resp
    /\ UNCHANGED <<shared, stores, cancelled, turn, maxTurns, playbookSeq, hadToolStep,
                   iter, ret, ops>>

\* traceIDMiddleware and the head of handlePlan: adopt or generate the trace id,
\* decode the body, reject an empty prompt or session id.
HandlePlan(r) ==
    /\ pc[r] = "idle"
    /\ \E hdr \in env.headers, bodyOk \in BOOLEAN, p \in ReqPrompts, s \in ReqSessions :
          /\ LET id == IF hdr = <<>> THEN NewUUID(r) ELSE hdr
             IN  /\ xTraceID' = [xTraceID EXCEPT ![r] = [sent |-> hdr, echoed |-> id]]
                 /\ traceID' = [traceID EXCEPT ![r] = id]
          /\ planReq' = [planReq EXCEPT ![r] = [decoded |-> bodyOk, Prompt |-> p, SessionID |-> s]]
          /\ IF ~bodyOk
                THEN /\ p = <<>> /\ s = <<>>
                     /\ resp' = [resp EXCEPT ![r] = [status |-> 400, body |-> <<"Invalid request body">>]]
                     /\ pc' = [pc EXCEPT ![r] = "done"]
                     /\ UNCHANGED <<sessionID, basePrompt, prompt>>
                ELSE IF p = <<>> \/ s = <<>>
                THEN /\ resp' = [resp EXCEPT ![r] = [status |-> 400,
                                    body |-> <<"Prompt and session_id are required">>]]
                     /\ pc' = [pc EXCEPT ![r] = "done"]
                     /\ UNCHANGED <<sessionID, basePrompt, prompt>>
                ELSE /\ sessionID' = [sessionID EXCEPT ![r] = s]
                     /\ basePrompt' = [basePrompt EXCEPT ![r] = p]
                     /\ prompt' = [prompt EXCEPT ![r] = p]
                     /\ pc' = [pc EXCEPT ![r] = "plan_start"]
                     /\ UNCHANGED resp
    /\ UNCHANGED <<shared, stores, cancelled, turn, maxTurns, playbookSeq, hadToolStep,
                   iter, ret, ops>>

\* The tail of handlePlan: 500 with the error text, or 200 with the result.
Respond(r) ==
    /\ pc[r] = "respond"
    /\ resp' = [resp EXCEPT ![r] =
                  IF ret[r].err # NoErr
                     THEN [status |-> 500, body |-> <<"Agent execution failed: ">> \o ret[r].err]
                     ELSE [status |-> 200, body |-> ret[r].result]]
    /\ pc' = [pc EXCEPT ![r] = "done"]
    /\ UNCHANGED <<shared, stores, cancelled, inputs, locals, iter, ret, ops>>

\* The request context is cancelled (the client went away) while AgentLoop runs.
Cancel(r) ==
    /\ pc[r] \notin {"off", "idle", "respond", "done"}
    /\ ~cancelled[r]
    /\ InjectedFaults(r) < env.maxFaults
    /\ cancelled' = [cancelled EXCEPT ![r] = TRUE]
    /\ UNCHANGED <<shared, stores, pc, inputs, locals, iter, ret, resp, ops>>

\* ---------------------------------------------------------------- AgentLoop
Goto(r, label) == pc' = [pc EXCEPT ![r] = label]

\* The locals of one loop iteration go out of scope.
EndIteration(r) ==
    /\ history' = [history EXCEPT ![r] = <<>>]
    /\ rag' = [rag EXCEPT ![r] = NilRag]
    /\ plannerInput' = [plannerInput EXCEPT ![r] = <<>>]
    /\ plan' = [plan EXCEPT ![r] = <<>>]
    /\ toolCall' = [toolCall EXCEPT ![r] = NoToolCall]
    /\ toolOut' = [toolOut EXCEPT ![r] = <<>>]
    /\ callErr' = [callErr EXCEPT ![r] = NoErr]

Return(r, result, err) ==
    /\ ret' = [ret EXCEPT ![r] = [returned |-> TRUE, result |-> result, err |-> err]]
    /\ Goto(r, "respond")

\* Mutant: only zero is replaced by the default, a negative value is kept.
CoerceMaxTurns_ZeroOnly(n) == IF n = 0 THEN 3 ELSE n

\* Mutant: the configured value is ignored and the default is always used.
CoerceMaxTurns_AlwaysDefault(n) == 3

\* maxTurns := p.cfg.MaxTurns; if maxTurns <= 0 { maxTurns = 3 }
CoerceMaxTurns(n) == IF n <= 0 THEN 3 ELSE n

\* Mutant: STARTED is published without PLAN_START having been recorded.
RecordPlanStart_Skipped(r) ==
    /\ pc[r] = "plan_start"
    /\ Goto(r, "publish_started")
    /\ UNCHANGED <<shared, stores, cancelled, inputs, locals, iter, ret, resp, ops>>

\* Mutant: the PLAN_START payload depends on the trace id of the run.
RecordPlanStart_Traced(r) ==
    /\ pc[r] = "plan_start"
    /\ \E ok \in AuditOutcomes(r) :
          RecordStep(r, "PLAN_START", "", basePrompt[r] \o traceID[r], JNum(cfgMaxTurns), ok)
    /\ Goto(r, "publish_started")
    /\ UNCHANGED <<shared, channel, cancelled, inputs, locals, iter, ret, resp>>

\* RecordStep(PLAN_START) with the prompt and the configured max_turns (uncoerced).
RecordPlanStart(r) ==
    /\ pc[r] = "plan_start"
    /\ \E ok \in AuditOutcomes(r) :
          RecordStep(r, "PLAN_START", "", basePrompt[r], JNum(cfgMaxTurns), ok)
    /\ Goto(r, "publish_started")
    /\ UNCHANGED <<shared, channel, cancelled, inputs, locals, iter, ret, resp>>

\* Mutant: STARTED is not published once the request's context is cancelled.
PublishStarted_UnlessCancelled(r) ==
    /\ pc[r] = "publish_started"
    /\ IF cancelled[r] THEN UNCHANGED <<ops, channel>>
                       ELSE \E ok \in Outcomes(r) : PublishStatus(r, <<"STARTED">>, ok)
    /\ playbookSeq' = [playbookSeq EXCEPT ![r] = <<[role |-> "user", content |-> basePrompt[r]]>>]
    /\ hadToolStep' = [hadToolStep EXCEPT ![r] = FALSE]
    /\ maxTurns' = [maxTurns EXCEPT ![r] = CoerceMaxTurns(cfgMaxTurns)]
    /\ turn' = [turn EXCEPT ![r] = 1]
    /\ Goto(r, "loop")
    /\ UNCHANGED <<shared, auditDB, cancelled, inputs, prompt, iter, ret, resp>>

\* PublishStatus(STARTED), then the loop's locals are set up and turn := 1.
PublishStarted(r) ==
    /\ pc[r] = "publish_started"
    /\ \E ok \in Outcomes(r) : PublishStatus(r, <<"STARTED">>, ok)
    /\ playbookSeq' = [playbookSeq EXCEPT ![r] = <<[role |-> "user", content |-> basePrompt[r]]>>]
    /\ hadToolStep' = [hadToolStep EXCEPT ![r] = FALSE]
    /\ maxTurns' = [maxTurns EXCEPT ![r] = CoerceMaxTurns(cfgMaxTurns)]
    /\ turn' = [turn EXCEPT ![r] = 1]
    /\ Goto(r, "loop")
    /\ UNCHANGED <<shared, auditDB, cancelled, inputs, prompt, iter, ret, resp>>

\* Mutant: the loop runs one iteration too many.
LoopCond_OffByOne(r) ==
    /\ pc[r] = "loop"
    /\ IF turn[r] <= maxTurns[r] + 1
          THEN Goto(r, "history") /\ UNCHANGED ret
          ELSE Return(r, SentinelText, NoErr)
    /\ UNCHANGED <<shared, stores, cancelled, inputs, locals, iter, resp, ops>>

\* Mutant: the budget-exhausted exit publishes COMPLETED like the final-answer exit.
LoopCond_Completed(r) ==
    /\ pc[r] = "loop"
    /\ IF turn[r] <= maxTurns[r]
          THEN Goto(r, "history") /\ UNCHANGED <<ret, ops, channel>>
          ELSE PublishStatus(r, <<"COMPLETED">>, TRUE) /\ Return(r, SentinelText, NoErr)
    /\ UNCHANGED <<shared, auditDB, cancelled, inputs, locals, iter, resp>>

\* The loop condition turn <= maxTurns; the sentinel is returned when it fails.
LoopCond(r) ==
    /\ pc[r] = "loop"
    /\ IF turn[r] <= maxTurns[r]
          THEN Goto(r, "history") /\ UNCHANGED ret
          ELSE Return(r, SentinelText, NoErr)
    /\ UNCHANGED <<shared, stores, cancelled, inputs, locals, iter, resp, ops>>

\* Mutant: a failed fetch of the session history fails the request.
FetchSessionHistory_Fatal(r) ==
    /\ pc[r] = "history"
    /\ \E ok \in Outcomes(r) :
          /\ Issue(r, [op |-> "history", session |-> sessionID[r], ok |-> ok])
          /\ IF ok THEN /\ \E h \in HistoryAnswers(r) : history' = [history EXCEPT ![r] = h]
                        /\ Goto(r, "rag")
                        /\ UNCHANGED ret
                   ELSE /\ history' = [history EXCEPT ![r] = <<>>]
                        /\ Return(r, <<>>, <<"memory/latest failed">>)
    /\ UNCHANGED <<shared, stores, cancelled, inputs, locals, rag, plannerInput, plan,
                   toolCall, toolOut, callErr, resp>>

\* history, _ := p.fetchSessionHistory(ctx, sessionID)
FetchSessionHistory(r) ==
    /\ pc[r] = "history"
    /\ \E ok \in Outcomes(r) :
          /\ Issue(r, [op |-> "history", session |-> sessionID[r], ok |-> ok])
          /\ IF ok THEN \E h \in HistoryAnswers(r) : history' = [history EXCEPT ![r] = h]
                   ELSE history' = [history EXCEPT ![r] = <<>>]
    /\ Goto(r, "rag")
    /\ UNCHANGED <<shared, stores, cancelled, inputs, locals, rag, plannerInput, plan,
                   toolCall, toolOut, callErr, ret, resp>>

\* rag, _ := p.memoryClient.GetRAGContext(...); plannerInput := buildPlannerPrompt(...)
GetRAGContext(r) ==
    /\ pc[r] = "rag"
    /\ \E ok \in Outcomes(r) :
          /\ Issue(r, [op |-> "rag", query |-> prompt[r], ok |-> ok])
          /\ \E g \in (IF ok THEN RagAnswers(r) ELSE {NilRag}) :
                /\ rag' = [rag EXCEPT ![r] = g]
                /\ plannerInput' = [plannerInput EXCEPT ![r] =
                                      buildPlannerPrompt(prompt[r], history[r], g)]
    /\ Goto(r, "get_plan")
    /\ UNCHANGED <<shared, stores, cancelled, inputs, locals, history, plan,
                   toolCall, toolOut, callErr, ret, resp>>

\* planResp, err := p.modelClient.GetPlan(ctx, {Prompt: plannerInput}).  history, rag
\* and plannerInput are not read after this call.
GetPlan(r) ==
    /\ pc[r] = "get_plan"
    /\ \/ /\ cancelled[r] \/ TRUE \in ModelFails(r)
          /\ \E e \in (IF cancelled[r] THEN {CtxCanceled} ELSE {RpcError}) :
                callErr' = [callErr EXCEPT ![r] = e]
          /\ Issue(r, [op |-> "model", turn |-> turn[r], ok |-> FALSE])
          /\ Goto(r, "plan_error")
          /\ UNCHANGED plan
       \/ /\ ~cancelled[r] /\ FALSE \in ModelFails(r)
          /\ \E text \in PlanAnswers(r) : plan' = [plan EXCEPT ![r] = text]
          /\ Issue(r, [op |-> "model", turn |-> turn[r], ok |-> TRUE])
          /\ Goto(r, "model_response")
          /\ UNCHANGED callErr
    /\ history' = [history EXCEPT ![r] = <<>>]
    /\ rag' = [rag EXCEPT ![r] = NilRag]
    /\ plannerInput' = [plannerInput EXCEPT ![r] = <<>>]
    /\ UNCHANGED <<shared, stores, cancelled, inputs, locals, toolCall, toolOut, ret, resp>>

\* Mutant: a model failure is fed back like a tool failure and the loop goes on.
RecordPlanError_Swallow(r) ==
    /\ pc[r] = "plan_error"
    /\ \E ok \in AuditOutcomes(r) : RecordStep(r, "PLAN_ERROR", "", callErr[r], GoNil, ok)
    /\ turn' = [turn EXCEPT ![r] = @ + 1]
    /\ EndIteration(r)
    /\ Goto(r, "loop")
    /\ UNCHANGED <<shared, channel, cancelled, inputs, prompt, maxTurns, playbookSeq,
                   hadToolStep, ret, resp>>

\* RecordStep(PLAN_ERROR); return "", fmt.Errorf("GetPlan: %w", err)
RecordPlanError(r) ==
    /\ pc[r] = "plan_error"
    /\ \E ok \in AuditOutcomes(r) : RecordStep(r, "PLAN_ERROR", "", callErr[r], GoNil, ok)
    /\ Return(r, <<>>, <<"GetPlan: ">> \o callErr[r])
    /\ UNCHANGED <<shared, channel, cancelled, inputs, locals, iter, resp>>

\* RecordStep(PLAN_MODEL_RESPONSE); toolCall := tryParseToolCall(plan); on the
\* final-answer path the plan is appended to playbookSeq.
RecordModelResponse(r) ==
    /\ pc[r] = "model_response"
    /\ \E ok \in AuditOutcomes(r) : RecordStep(r, "PLAN_MODEL_RESPONSE", "", plan[r], GoNil, ok)
    /\ LET tc == tryParseToolCall(plan[r])
       IN  /\ toolCall' = [toolCall EXCEPT ![r] = tc]
           /\ IF tc.nil
                 THEN /\ playbookSeq' = [playbookSeq EXCEPT ![r] =
                                           Append(@, [role |-> "assistant", content |-> plan[r]])]
                      /\ Goto(r, "plan_end")
                 ELSE /\ Goto(r, "tool_call")
                      /\ UNCHANGED playbookSeq
    /\ UNCHANGED <<shared, channel, cancelled, inputs, prompt, turn, maxTurns, hadToolStep,
                   history, rag, plannerInput, plan, toolOut, callErr, ret, resp>>

\* Mutant: a failed write of PLAN_END fails the request.
RecordPlanEnd_Fatal(r) ==
    /\ pc[r] = "plan_end"
    /\ \E ok \in AuditOutcomes(r) :
          /\ RecordStep(r, "PLAN_END", "", plan[r], GoNil, ok)
          /\ IF ok THEN Goto(r, "playbook") /\ UNCHANGED ret
                   ELSE Return(r, <<>>, <<"audit: write failed">>)
    /\ UNCHANGED <<shared, channel, cancelled, inputs, locals, iter, resp>>

\* Mutant: the final answer is not recorded.
RecordPlanEnd_Unrecorded(r) ==
    /\ pc[r] = "plan_end"
    /\ Goto(r, "playbook")
    /\ UNCHANGED <<shared, stores, cancelled, inputs, locals, iter, ret, resp, ops>>

\* RecordStep(PLAN_END).
RecordPlanEnd(r) ==
    /\ pc[r] = "plan_end"
    /\ \E ok \in AuditOutcomes(r) : RecordStep(r, "PLAN_END", "", plan[r], GoNil, ok)
    /\ Goto(r, "playbook")
    /\ UNCHANGED <<shared, channel, cancelled, inputs, locals, iter, ret, resp>>

\* Mutant: the playbook is posted with the working prompt.
StorePlaybook_WorkingPrompt(r) ==
    /\ pc[r] = "playbook"
    /\ IF hadToolStep[r]
          THEN \E ok \in Outcomes(r) : storePlaybook(r, prompt[r], playbookSeq[r], ok)
          ELSE UNCHANGED ops
    /\ Goto(r, "store_final")
    /\ UNCHANGED <<shared, stores, cancelled, inputs, locals, iter, ret, resp>>

\* Mutant: the playbook is posted at every finalization.
StorePlaybook_Always(r) ==
    /\ pc[r] = "playbook"
    /\ \E ok \in Outcomes(r) :
          Issue(r, [op |-> "playbook", session |-> sessionID[r], prompt |-> basePrompt[r],
                    history_sequence |-> playbookSeq[r], ok |-> ok])
    /\ Goto(r, "store_final")
    /\ UNCHANGED <<shared, stores, cancelled, inputs, locals, iter, ret, resp>>

\* if hadToolStep { storePlaybook(ctx, sessionID, basePrompt, playbookSeq) }
StorePlaybook(r) ==
    /\ pc[r] = "playbook"
    /\ IF hadToolStep[r]
          THEN \E ok \in Outcomes(r) : storePlaybook(r, basePrompt[r], playbookSeq[r], ok)
          ELSE UNCHANGED ops
    /\ Goto(r, "store_final")
    /\ UNCHANGED <<shared, stores, cancelled, inputs, locals, iter, ret, resp>>

\* Mutant: a failed store of the final session delta fails the request.
StoreFinalDelta_Fatal(r) ==
    /\ pc[r] = "store_final"
    /\ \E ok \in Outcomes(r) :
          /\ storeSessionDelta(r, prompt[r], plan[r], ok)
          /\ IF ok THEN Goto(r, "publish_result") /\ UNCHANGED ret
                   ELSE Return(r, <<>>, <<"memory/store failed">>)
    /\ UNCHANGED <<shared, stores, cancelled, inputs, locals, iter, resp>>

\* storeSessionDelta(ctx, sessionID, prompt, plan)
StoreFinalDelta(r) ==
    /\ pc[r] = "store_final"
    /\ \E ok \in Outcomes(r) : storeSessionDelta(r, prompt[r], plan[r], ok)
    /\ Goto(r, "publish_result")
    /\ UNCHANGED <<shared, stores, cancelled, inputs, locals, iter, ret, resp>>

\* Mutant: the result is published only when the final session delta was stored.
PublishResult_AfterStore(r) ==
    /\ pc[r] = "publish_result"
    /\ IF ops[r][Len(ops[r])].ok
          THEN \E ok \in Outcomes(r) : PublishNotification(r, plan[r], ok)
          ELSE UNCHANGED <<ops, channel>>
    /\ Goto(r, "publish_completed")
    /\ UNCHANGED <<shared, auditDB, cancelled, inputs, locals, iter, ret, resp>>

\* Mutant: the result notification is left out.
PublishResult_Skipped(r) ==
    /\ pc[r] = "publish_result"
    /\ Goto(r, "publish_completed")
    /\ UNCHANGED <<shared, stores, cancelled, inputs, locals, iter, ret, resp, ops>>

\* PublishNotification(plan)
PublishResult(r) ==
    /\ pc[r] = "publish_result"
    /\ \E ok \in Outcomes(r) : PublishNotification(r, plan[r], ok)
    /\ Goto(r, "publish_completed")
    /\ UNCHANGED <<shared, auditDB, cancelled, inputs, locals, iter, ret, resp>>

\* Mutant: the driver wraps the final plan in text of its own.
PublishCompleted_Composed(r) ==
    /\ pc[r] = "publish_completed"
    /\ \E ok \in Outcomes(r) : PublishStatus(r, <<"COMPLETED">>, ok)
    /\ Return(r, <<"Answer: ">> \o plan[r], NoErr)
    /\ UNCHANGED <<shared, auditDB, cancelled, inputs, locals, iter, resp>>

\* PublishStatus(COMPLETED); return plan, nil
PublishCompleted(r) ==
    /\ pc[r] = "publish_completed"
    /\ \E ok \in Outcomes(r) : PublishStatus(r, <<"COMPLETED">>, ok)
    /\ Return(r, plan[r], NoErr)
    /\ UNCHANGED <<shared, auditDB, cancelled, inputs, locals, iter, resp>>

\* Mutant: the tool call is dispatched without being recorded.
RecordToolCall_Unrecorded(r) ==
    /\ pc[r] = "tool_call"
    /\ Goto(r, "execute_tool")
    /\ UNCHANGED <<shared, stores, cancelled, inputs, locals, iter, ret, resp, ops>>

\* RecordStep(TOOL_CALL).
RecordToolCall(r) ==
    /\ pc[r] = "tool_call"
    /\ \E ok \in AuditOutcomes(r) :
          RecordStep(r, "TOOL_CALL", toolCall[r].Name, <<>>, toolCall[r].Args, ok)
    /\ Goto(r, "execute_tool")
    /\ UNCHANGED <<shared, channel, cancelled, inputs, locals, iter, ret, resp>>

\* Mutant: a reply whose status is not "ok" is turned into an error.
executeToolGRPC_StatusChecked(r) ==
    LET args == IF toolCall[r].Args.k = "nil" THEN JObj(EmptyMap) ELSE toolCall[r].Args
        req == [op |-> "tool", tool_name |-> toolCall[r].Name, args_json |-> JsonMarshal(args)]
    IN  \/ /\ cancelled[r] \/ TRUE \in SandboxFails(r)
           /\ \E e \in (IF cancelled[r] THEN {CtxCanceled} ELSE {RpcError}) :
                 callErr' = [callErr EXCEPT ![r] =
                               <<"ExecuteTool(\"">> \o Str(toolCall[r].Name) \o <<"\"): ">> \o e]
           /\ Issue(r, [req EXCEPT !.op = "tool"] @@ [ok |-> FALSE])
           /\ Goto(r, "tool_error")
           /\ UNCHANGED toolOut
        \/ /\ ~cancelled[r] /\ FALSE \in SandboxFails(r)
           /\ \E out \in SandboxAnswers(r) :
                 IF out.status = "ok"
                    THEN /\ toolOut' = [toolOut EXCEPT ![r] = MarshalToolOut(out)]
                         /\ Goto(r, "tool_result")
                         /\ UNCHANGED callErr
                    ELSE /\ callErr' = [callErr EXCEPT ![r] =
                                          <<"tool status: ">> \o Str(out.status)]
                         /\ Goto(r, "tool_error")
                         /\ UNCHANGED toolOut
           /\ Issue(r, req @@ [ok |-> TRUE])

\* executeToolGRPC: nil args become {}, the args are marshalled, the sandbox is
\* called; a transport failure is wrapped, a reply is re-serialised as JSON.
executeToolGRPC(r) ==
    LET args == IF toolCall[r].Args.k = "nil" THEN JObj(EmptyMap) ELSE toolCall[r].Args
        req == [op |-> "tool", tool_name |-> toolCall[r].Name, args_json |-> JsonMarshal(args)]
    IN  \/ /\ cancelled[r] \/ TRUE \in SandboxFails(r)
           /\ \E e \in (IF cancelled[r] THEN {CtxCanceled} ELSE {RpcError}) :
                 callErr' = [callErr EXCEPT ![r] =
                               <<"ExecuteTool(\"">> \o Str(toolCall[r].Name) \o <<"\"): ">> \o e]
           /\ Issue(r, [req EXCEPT !.op = "tool"] @@ [ok |-> FALSE])
           /\ Goto(r, "tool_error")
           /\ UNCHANGED toolOut
        \/ /\ ~cancelled[r] /\ FALSE \in SandboxFails(r)
           /\ \E out \in SandboxAnswers(r) : toolOut' = [toolOut EXCEPT ![r] = MarshalToolOut(out)]
           /\ Issue(r, req @@ [ok |-> TRUE])
           /\ Goto(r, "tool_result")
           /\ UNCHANGED callErr

\* toolOut, err := p.executeTool(ctx, toolCall.Name, toolCall.Args)
ExecuteTool(r) ==
    /\ pc[r] = "execute_tool"
    /\ executeToolGRPC(r)
    /\ UNCHANGED <<shared, stores, cancelled, inputs, locals, history, rag, plannerInput,
                   plan, toolCall, ret, resp>>

\* Mutant: a tool failure is fed back but not recorded.
RecordToolError_Unrecorded(r) ==
    /\ pc[r] = "tool_error"
    /\ prompt' = [prompt EXCEPT ![r] = @ \o <<"\n\nTool error: ">> \o callErr[r]]
    /\ turn' = [turn EXCEPT ![r] = @ + 1]
    /\ EndIteration(r)
    /\ Goto(r, "loop")
    /\ UNCHANGED <<shared, stores, cancelled, inputs, maxTurns, playbookSeq, hadToolStep,
                   ret, resp, ops>>

\* Mutant: a tool failure is recorded but not fed back into the prompt.
RecordToolError_NoFeedback(r) ==
    /\ pc[r] = "tool_error"
    /\ \E ok \in AuditOutcomes(r) :
          RecordStep(r, "TOOL_ERROR", toolCall[r].Name, callErr[r], GoNil, ok)
    /\ turn' = [turn EXCEPT ![r] = @ + 1]
    /\ EndIteration(r)
    /\ Goto(r, "loop")
    /\ UNCHANGED <<shared, channel, cancelled, inputs, prompt, maxTurns, playbookSeq,
                   hadToolStep, ret, resp>>

\* Mutant: a failed tool call counts as a tool step and its plan enters the playbook.
RecordToolError_CountsAsStep(r) ==
    /\ pc[r] = "tool_error"
    /\ \E ok \in AuditOutcomes(r) :
          RecordStep(r, "TOOL_ERROR", toolCall[r].Name, callErr[r], GoNil, ok)
    /\ prompt' = [prompt EXCEPT ![r] = @ \o <<"\n\nTool error: ">> \o callErr[r]]
    /\ hadToolStep' = [hadToolStep EXCEPT ![r] = TRUE]
    /\ playbookSeq' = [playbookSeq EXCEPT ![r] =
                         @ \o <<[role |-> "assistant", content |-> plan[r]],
                                [role |-> "tool_result", content |-> callErr[r]]>>]
    /\ turn' = [turn EXCEPT ![r] = @ + 1]
    /\ EndIteration(r)
    /\ Goto(r, "loop")
    /\ UNCHANGED <<shared, channel, cancelled, inputs, maxTurns, ret, resp>>

\* RecordStep(TOOL_ERROR); the error text is appended to prompt; continue.
RecordToolError(r) ==
    /\ pc[r] = "tool_error"
    /\ \E ok \in AuditOutcomes(r) :
          RecordStep(r, "TOOL_ERROR", toolCall[r].Name, callErr[r], GoNil, ok)
    /\ prompt' = [prompt EXCEPT ![r] = @ \o <<"\n\nTool error: ">> \o callErr[r]]
    /\ turn' = [turn EXCEPT ![r] = @ + 1]
    /\ EndIteration(r)
    /\ Goto(r, "loop")
    /\ UNCHANGED <<shared, channel, cancelled, inputs, maxTurns, playbookSeq, hadToolStep,
                   ret, resp>>

\* Mutant: only the plan of a tool turn is appended to the playbook, not its output.
RecordToolResult_PlanOnly(r) ==
    /\ pc[r] = "tool_result"
    /\ \E ok \in AuditOutcomes(r) :
          RecordStep(r, "TOOL_RESULT", toolCall[r].Name, toolOut[r], GoNil, ok)
    /\ hadToolStep' = [hadToolStep EXCEPT ![r] = TRUE]
    /\ playbookSeq' = [playbookSeq EXCEPT ![r] =
                         Append(@, [role |-> "assistant", content |-> plan[r]])]
    /\ prompt' = [prompt EXCEPT ![r] = buildFollowupPrompt(@, plan[r], toolOut[r])]
    /\ Goto(r, "store_tool_plan")
    /\ UNCHANGED <<shared, channel, cancelled, inputs, turn, maxTurns, iter, ret, resp>>

\* Mutant: hadToolStep is a flag all requests share.
RecordToolResult_SharedFlag(r) ==
    /\ pc[r] = "tool_result"
    /\ \E ok \in AuditOutcomes(r) :
          RecordStep(r, "TOOL_RESULT", toolCall[r].Name, toolOut[r], GoNil, ok)
    /\ hadToolStep' = [q \in Req |-> TRUE]
    /\ playbookSeq' = [playbookSeq EXCEPT ![r] =
                         @ \o <<[role |-> "assistant", content |-> plan[r]],
                                [role |-> "tool_result", content |-> toolOut[r]]>>]
    /\ prompt' = [prompt EXCEPT ![r] = buildFollowupPrompt(@, plan[r], toolOut[r])]
    /\ Goto(r, "store_tool_plan")
    /\ UNCHANGED <<shared, channel, cancelled, inputs, turn, maxTurns, iter, ret, resp>>

\* RecordStep(TOOL_RESULT); hadToolStep, playbookSeq and prompt are updated.
RecordToolResult(r) ==
    /\ pc[r] = "tool_result"
    /\ \E ok \in AuditOutcomes(r) :
          RecordStep(r, "TOOL_RESULT", toolCall[r].Name, toolOut[r], GoNil, ok)
    /\ hadToolStep' = [hadToolStep EXCEPT ![r] = TRUE]
    /\ playbookSeq' = [playbookSeq EXCEPT ![r] =
                         @ \o <<[role |-> "assistant", content |-> plan[r]],
                                [role |-> "tool_result", content |-> toolOut[r]]>>]
    /\ prompt' = [prompt EXCEPT ![r] = buildFollowupPrompt(@, plan[r], toolOut[r])]
    /\ Goto(r, "store_tool_plan")
    /\ UNCHANGED <<shared, channel, cancelled, inputs, turn, maxTurns, iter, ret, resp>>

\* Mutant: the tool output is stored where the plan should be, ahead of its turn.
StoreToolPlan_OutputFirst(r) ==
    /\ pc[r] = "store_tool_plan"
    /\ \E ok \in Outcomes(r) : storeSessionDelta(r, <<"[tool-output]">>, toolOut[r], ok)
    /\ Goto(r, "store_tool_output")
    /\ UNCHANGED <<shared, stores, cancelled, inputs, locals, iter, ret, resp>>

\* storeSessionDelta(ctx, sessionID, "[tool-plan]", plan)
StoreToolPlan(r) ==
    /\ pc[r] = "store_tool_plan"
    /\ \E ok \in Outcomes(r) : storeSessionDelta(r, <<"[tool-plan]">>, plan[r], ok)
    /\ Goto(r, "store_tool_output")
    /\ UNCHANGED <<shared, stores, cancelled, inputs, locals, iter, ret, resp>>

\* Mutant: the tool output is not stored in the session.
StoreToolOutput_Unstored(r) ==
    /\ pc[r] = "store_tool_output"
    /\ turn' = [turn EXCEPT ![r] = @ + 1]
    /\ EndIteration(r)
    /\ Goto(r, "loop")
    /\ UNCHANGED <<shared, stores, cancelled, inputs, prompt, maxTurns, playbookSeq,
                   hadToolStep, ret, resp, ops>>

\* storeSessionDelta(ctx, sessionID, "[tool-output]", toolOut); turn++
StoreToolOutput(r) ==
    /\ pc[r] = "store_tool_output"
    /\ \E ok \in Outcomes(r) : storeSessionDelta(r, <<"[tool-output]">>, toolOut[r], ok)
    /\ turn' = [turn EXCEPT ![r] = @ + 1]
    /\ EndIteration(r)
    /\ Goto(r, "loop")
    /\ UNCHANGED <<shared, stores, cancelled, inputs, prompt, maxTurns, playbookSeq,
                   hadToolStep, ret, resp>>

AgentLoop(r) ==
    \/ RecordPlanStart(r) \/ PublishStarted(r) \/ LoopCond(r)
    \/ FetchSessionHistory(r) \/ GetRAGContext(r) \/ GetPlan(r)
    \/ RecordPlanError(r) \/ RecordModelResponse(r)
    \/ RecordPlanEnd(r) \/ StorePlaybook(r) \/ StoreFinalDelta(r)
    \/ PublishResult(r) \/ PublishCompleted(r)
    \/ RecordToolCall(r) \/ ExecuteTool(r) \/ RecordToolError(r) \/ RecordToolResult(r)
    \/ StoreToolPlan(r) \/ StoreToolOutput(r)

Next == \E r \in Req : HandlePlan(r) \/ AgentLoop(r) \/ Respond(r) \/ Cancel(r)

Spec == Init /\ [][Next]_vars

\* The steps of serving request r, and the server when no best-effort call fails
\* and no context is cancelled.
RunStep(r) == HandlePlan(r) \/ AgentLoop(r) \/ Respond(r)

NextNoFaults == \E r \in Req : RunStep(r)

\* One request whose model gateway may answer with any of the plan texts.
InitInterp ==
    /\ InitRequests
    /\ env = [replies |-> PlanTexts, headers |-> {<<>>}, maxFaults |-> 0]
    /\ cfgMaxTurns \in 1 .. MaxCfgTurns
    /\ redisUp \in BOOLEAN
    /\ planner = StartedPlanner(redisUp)
    /\ pc = [r \in Req |-> IF r = 1 THEN "idle" ELSE "off"]

SpecInterp == InitInterp /\ [][NextNoFaults]_vars

\* Concurrent requests on one Planner: requests 1 and 2 are in flight together, each
\* with or without an X-Trace-ID header (both may send the same one); one turn each,
\* the broker is up, no best-effort call fails and no context is cancelled.
InitConc ==
    /\ InitRequests
    /\ env = [replies |-> {FinalText, ToolSearch}, headers |-> ReqTraceHeaders, maxFaults |-> 0]
    /\ cfgMaxTurns = 1
    /\ redisUp = TRUE
    /\ planner = StartedPlanner(redisUp)
    /\ pc = [r \in Req |-> IF r \in {1, 2} THEN "idle" ELSE "off"]

SpecConc == InitConc /\ [][NextNoFaults]_vars

\* Runs of AgentLoop against pinned collaborators: the requests are served one after
\* the other, with the same configuration, and the memory service, the model
\* gateway and the sandbox answer every run from the same script.
TurnScripts ==
    {[modelFails |-> FALSE, reply |-> m, sandboxFails |-> f, sandbox |-> o] :
        m \in ModelReplies, f \in BOOLEAN, o \in SandboxReplies}
    \cup {[modelFails |-> TRUE, reply |-> "", sandboxFails |-> FALSE,
           sandbox |-> CHOOSE o \in SandboxReplies : TRUE]}
Scripts ==
    {[history |-> h, rag |-> g, turns |-> <<a, b>>] :
        h \in Histories, g \in RagReplies, a \in TurnScripts, b \in TurnScripts}
\* The turns in which the model answers with text, answers with a tool call that
\* the sandbox serves or fails to serve, or fails.
TurnChoices ==
    {t \in TurnScripts : /\ t.reply \in {FinalText, ToolSearch, ""}
                         /\ (t.reply = "") = t.modelFails
                         /\ t.sandbox.status = "ok"
                         /\ t.sandboxFails => t.reply = ToolSearch}

InitDet ==
    /\ InitRequests
    /\ \E sc \in Scripts :
          env = [replies |-> ModelReplies, headers |-> {<<>>}, maxFaults |-> 0,
                 script |-> sc]
    /\ cfgMaxTurns = 2
    /\ redisUp \in BOOLEAN
    /\ planner = StartedPlanner(redisUp)
    /\ pc = [r \in Req |-> "idle"]

NextDet == RunStep(1) \/ \E r \in Req \ {1} : pc[r - 1] = "done" /\ RunStep(r)

SpecDet == InitDet /\ [][NextDet]_vars

\* The audit store fails at will for request 2 and never for request 1: the two are
\* served one after the other against the same pinned collaborators, broker up.
InitAudit ==
    /\ InitRequests
    /\ \E sc \in Scripts :
          /\ sc.history = <<>> /\ sc.rag.matches = <<>>
          /\ \A i \in DOMAIN sc.turns : sc.turns[i] \in TurnChoices
          /\ env = [replies |-> ModelReplies, headers |-> {<<>>}, maxFaults |-> 0,
                    script |-> sc, auditFails |-> {2}]
    /\ cfgMaxTurns = 2
    /\ redisUp = TRUE
    /\ planner = StartedPlanner(redisUp)
    /\ pc = [r \in Req |-> IF r \in {1, 2} THEN "idle" ELSE "off"]

SpecAudit == InitAudit /\ [][NextDet]_vars

\* One request against pinned answers of the model and the sandbox, while its
\* best-effort calls may fail and its context may be cancelled.
FaultTurns ==
    {t \in TurnScripts :
        /\ t.reply \in {FinalText, ToolSearch, ""}
        /\ (t.reply = "") = t.modelFails
        /\ t.sandboxFails => t.reply = ToolSearch
        /\ (t.sandboxFails \/ t.reply # ToolSearch) =>
              t.sandbox = CHOOSE o \in SandboxReplies : TRUE}

InitFaults ==
    /\ InitRequests
    /\ \E sc \in Scripts :
          /\ sc.history = <<>> /\ sc.rag.matches = <<>>
          /\ \A i \in DOMAIN sc.turns : sc.turns[i] \in FaultTurns
          /\ env = [replies |-> ModelReplies, headers |-> {<<>>}, maxFaults |-> MaxFaults,
                    script |-> sc]
    /\ cfgMaxTurns = 2
    /\ redisUp \in BOOLEAN
    /\ planner = StartedPlanner(redisUp)
    /\ pc = [r \in Req |-> IF r = 1 THEN "idle" ELSE "off"]

SpecFaults == InitFaults /\ [][Next]_vars

\* One request whose memory service holds any of its answers, while each fetch may
\* fail on its own (two faults, so that both fetches of a turn may fail): the first
\* turn is any of FaultTurns, the second one answers with text.
InitContext ==
    /\ InitRequests
    /\ \E sc \in Scripts :
          /\ sc.turns[1] \in FaultTurns
          /\ sc.turns[2] \in FaultTurns /\ sc.turns[2].reply = FinalText
          /\ env = [replies |-> ModelReplies, headers |-> {<<>>},
                    maxFaults |-> MaxFaults + 1, script |-> sc]
    /\ cfgMaxTurns = 2
    /\ redisUp = TRUE
    /\ planner = StartedPlanner(redisUp)
    /\ pc = [r \in Req |-> IF r = 1 THEN "idle" ELSE "off"]

SpecContext == InitContext /\ [][Next]_vars

\* One request, no faults: the model client talks to the model gateway of this
\* repository, whose LLM may write any of GwContents, or to a server that may
\* answer any of ModelReplies.
InitGateway ==
    /\ InitRequests
    /\ \/ \E pr \in Providers :
             env = [replies |-> {}, headers |-> {<<>>}, maxFaults |-> 0,
                    gateway |-> [provider |-> pr, contents |-> GwContents]]
       \/ env = [replies |-> ModelReplies, headers |-> {<<>>}, maxFaults |-> 0]
    /\ cfgMaxTurns \in 1 .. MaxCfgTurns
    /\ redisUp = TRUE
    /\ planner = StartedPlanner(redisUp)
    /\ pc = [r \in Req |-> IF r = 1 THEN "idle" ELSE "off"]

SpecGateway == InitGateway /\ [][NextNoFaults]_vars

\* ---------------------------------------------------------------- main
\* The request is being served.
InFlight(r) == pc[r] \notin {"off", "idle", "done", "killed"}

\* What a starting process may meet: the values of AGENT_MAX_TURNS (as it was, unless
\* the run says which values the environment may hold), the step of NewPlanner that
\* fails and the broker's answer to the ping (any, unless the run pins them).
ConfigValues == IF "configs" \in DOMAIN env THEN env.configs ELSE {cfgMaxTurns}
StartupFailures == IF "startup" \in DOMAIN env THEN env.startup.failedAt
                                               ELSE FatalSteps \cup {"none"}
PingOutcomes == IF "startup" \in DOMAIN env THEN env.startup.pingOk ELSE BOOLEAN

\* main: the process starts (the first time, or again after a shutdown), reads the
\* configuration and calls NewPlanner; any of its fatal steps may fail, the broker
\* may not answer the ping.
NewPlanner ==
    /\ planner.state \in {"down", "closed"}
    /\ planner.starts < MaxStarts
    /\ cfgMaxTurns' \in ConfigValues
    /\ \E failedAt \in StartupFailures, pingOk \in PingOutcomes :
          /\ failedAt # "none" => ~pingOk
          /\ planner' = NewPlannerResult(failedAt, pingOk, planner.starts + 1)
          /\ redisUp' = (failedAt = "none" /\ pingOk)
    /\ UNCHANGED <<env, stores, pc, cancelled, inputs, locals, iter, ret, resp, ops>>

\* Mutant: a resource that is closed already is released once more.
Close_DoubleRelease ==
    /\ planner.state \in {"up", "closed", "failed"}
    /\ planner.closeCalls < MaxCloses
    /\ \A r \in Req : ~InFlight(r)
    /\ LET nonNil(x) == x # "redis" \/ redisUp
           fields == SelectSeq(Resources, nonNil)
       IN  planner' =
              IF planner.state = "failed"
                 THEN [planner EXCEPT !.closeCalls = @ + 1]
                 ELSE [planner EXCEPT
                          !.state = "closed",
                          !.closeCalls = @ + 1,
                          !.res = [x \in ResourceNames |->
                                     IF nonNil(x) THEN "closed" ELSE planner.res[x]],
                          !.trace = @ \o [i \in DOMAIN fields |->
                                            Release(fields[i], FALSE)]]
    /\ UNCHANGED <<env, cfgMaxTurns, redisUp, stores, pc, cancelled, inputs, locals, iter, ret,
                   resp, ops>>

\* Planner.Close: nothing on a nil Planner; else Close() on every non-nil field, in
\* the order of the fields' tests, each error dropped.  main calls it (deferred) once
\* server.Shutdown has returned, with no request in flight; it may be called again.
Close ==
    /\ planner.state \in {"up", "closed", "failed"}
    /\ planner.closeCalls < MaxCloses
    /\ \A r \in Req : ~InFlight(r)
    /\ LET nonNil(x) == x # "redis" \/ redisUp
           fields == SelectSeq(Resources, nonNil)
       IN  planner' =
              IF planner.state = "failed"
                 THEN [planner EXCEPT !.closeCalls = @ + 1]
                 ELSE [planner EXCEPT
                          !.state = "closed",
                          !.closeCalls = @ + 1,
                          !.res = [x \in ResourceNames |->
                                     IF nonNil(x) THEN "closed" ELSE planner.res[x]],
                          !.trace = @ \o [i \in DOMAIN fields |->
                                            Release(fields[i], planner.res[fields[i]] = "closed")]]
    /\ UNCHANGED <<env, cfgMaxTurns, redisUp, stores, pc, cancelled, inputs, locals, iter, ret,
                   resp, ops>>

\* main: server.Shutdown does not return in time because a request is still being
\* served; os.Exit(1), the deferred Close does not run.
ShutdownForced ==
    /\ planner.state = "up"
    /\ \E r \in Req : InFlight(r)
    /\ planner' = [planner EXCEPT !.state = "exited"]
    /\ pc' = [r \in Req |-> IF InFlight(r) THEN "killed" ELSE pc[r]]
    /\ UNCHANGED <<env, cfgMaxTurns, redisUp, stores, cancelled, inputs, locals, iter, ret,
                   resp, ops>>

\* The server serves requests while the Planner is up.
Serve == planner.state = "up" /\ NextDet

\* The life of the process: start, serve requests 1 and 2 one after the other against
\* pinned collaborators (the memory is empty, the model answers with text or a tool
\* call or fails, the sandbox answers or fails), shut down, start again.
LifeScripts ==
    {sc \in Scripts : /\ sc.history = <<>> /\ sc.rag.matches = <<>>
                      /\ \A i \in DOMAIN sc.turns : sc.turns[i].reply \in {FinalText, ToolSearch, ""}
                      /\ \A i \in DOMAIN sc.turns :
                            sc.turns[i].reply # ToolSearch =>
                                /\ ~sc.turns[i].sandboxFails /\ sc.turns[i].sandbox.status = "ok"
                                /\ sc.turns[i].reply = "" => sc.turns[i].modelFails}

InitLife ==
    /\ InitRequests
    /\ \E sc \in LifeScripts :
          env = [replies |-> ModelReplies, headers |-> {<<>>}, maxFaults |-> 0,
                 script |-> sc]
    /\ cfgMaxTurns = 2
    /\ redisUp = FALSE
    /\ planner = NoPlanner
    /\ pc = [r \in Req |-> IF r \in {1, 2} THEN "idle" ELSE "off"]

NextLife == NewPlanner \/ Close \/ ShutdownForced \/ Serve

SpecLife == InitLife /\ [][NextLife]_vars

\* The configured max_turns changes between two starts of the process: requests 1
\* and 2 are served one after the other, by the same process or by two, against
\* collaborators whose answers are pinned for three turns; every start succeeds.
CoerceScripts ==
    {[history |-> <<>>, rag |-> [nil |-> FALSE, matches |-> <<>>], turns |-> <<a, b, c>>] :
        a \in TurnChoices, b \in TurnChoices, c \in TurnChoices}

InitCoerce ==
    /\ InitRequests
    /\ \E sc \in CoerceScripts :
          env = [replies |-> ModelReplies, headers |-> {<<>>}, maxFaults |-> 0,
                 script |-> sc, configs |-> {-1, 0, 3},
                 startup |-> [failedAt |-> {"none"}, pingOk |-> {TRUE}]]
    /\ cfgMaxTurns = 3
    /\ redisUp = FALSE
    /\ planner = NoPlanner
    /\ pc = [r \in Req |-> IF r \in {1, 2} THEN "idle" ELSE "off"]

NextCoerce == NewPlanner \/ Close \/ Serve

SpecCoerce == InitCoerce /\ [][NextCoerce]_vars

\* ---------------------------------------------------------------- observations
\* The request's audit event stream: the events it handed to RecordStep, in order.
IsAudit(o) == o.op = "audit"
Audit(r) == SelectSeq(ops[r], IsAudit)
TypesOf(a) == [i \in DOMAIN a |-> a[i].type]
AuditTypes(r) == TypesOf(Audit(r))
CountIn(a, type) == Cardinality({i \in DOMAIN a : a[i].type = type})
CountType(r, type) == CountIn(Audit(r), type)
Terminals == {"PLAN_END", "PLAN_ERROR"}
ToolOutcomes == {"TOOL_RESULT", "TOOL_ERROR"}
CountTerminals(r) == CountType(r, "PLAN_END") + CountType(r, "PLAN_ERROR")

\* The notifications the request published: its PublishStatus / PublishNotification calls.
IsPublish(o) == o.op = "publish"
FormAndText(msgs) == [i \in DOMAIN msgs |-> [form |-> msgs[i].form, text |-> msgs[i].text]]
Published(r) == FormAndText(SelectSeq(ops[r], IsPublish))
Delivered(r) ==
    LET mine(m) == m.trace_id = traceID[r] /\ m.session_id = sessionID[r]
    IN  FormAndText(SelectSeq(channel, mine))

OpsIn(o, kind) == {i \in DOMAIN o : o[i].op = kind}
CountOps(r, kind) == Cardinality(OpsIn(ops[r], kind))
FailedIn(o, kind) == {i \in DOMAIN o : o[i].op = kind /\ ~o[i].ok}
FailedOps(r, kind) == FailedIn(ops[r], kind)

Returned(r) == ret[r].returned
\* The loop ended because turn exceeded maxTurns.
Exhausted(r) == Returned(r) /\ turn[r] > maxTurns[r]
\* The turn budget in force: the configured value when it is at least 1, else 3.
EffectiveMaxTurns == IF cfgMaxTurns >= 1 THEN cfgMaxTurns ELSE 3
IsPrefix(a, b) == Len(a) <= Len(b) /\ a = SubSeq(b, 1, Len(a))
IsSuffix(a, b) == Len(a) <= Len(b) /\ a = SubSeq(b, Len(b) - Len(a) + 1, Len(b))

\* ---------------------------------------------------------------- C1
\* C1 as stated: the audit stream of every returned request begins with PLAN_START,
\* ends with PLAN_END or PLAN_ERROR, and holds exactly one start and one terminal.
C1_Original ==
    \A r \in Req : Returned(r) =>
        \A t \in {AuditTypes(r)} :
            /\ Len(t) >= 2 /\ t[1] = "PLAN_START" /\ t[Len(t)] \in Terminals
            /\ CountType(r, "PLAN_START") = 1
            /\ CountTerminals(r) = 1

\* C1 amended: the audit stream of every returned request begins with PLAN_START and
\* holds exactly one PLAN_START; unless the turn budget was exhausted it ends with
\* PLAN_END or PLAN_ERROR and holds exactly one terminal event; when the turn budget
\* was exhausted it holds no terminal event.
C1_Amended ==
    \A r \in Req : Returned(r) =>
        \A t \in {AuditTypes(r)} :
            /\ Len(t) >= 2 /\ t[1] = "PLAN_START"
            /\ CountType(r, "PLAN_START") = 1
            /\ IF Exhausted(r)
                  THEN CountTerminals(r) = 0
                  ELSE t[Len(t)] \in Terminals /\ CountTerminals(r) = 1

C1_Witness ==
    \E r \in Req : /\ Returned(r) /\ ~Exhausted(r)
                   /\ CountType(r, "TOOL_RESULT") >= 1
                   /\ \A t \in {AuditTypes(r)} : t[Len(t)] = "PLAN_END"

\* ---------------------------------------------------------------- C2
\* C2: every TOOL_CALL event is followed at once by exactly one TOOL_RESULT or
\* TOOL_ERROR event with the same tool name (so before any later
\* PLAN_MODEL_RESPONSE or terminal event); a TOOL_CALL is the last event only while
\* its tool call is being executed and recorded.
C2_ToolCallAnswered ==
    \A r \in Req :
        \A a \in {Audit(r)} :
            /\ \A i \in DOMAIN a : a[i].type = "TOOL_CALL" =>
                  IF i = Len(a)
                     THEN pc[r] \in {"execute_tool", "tool_error", "tool_result"}
                     ELSE a[i + 1].type \in ToolOutcomes /\ a[i + 1].tool = a[i].tool
            /\ \A i \in DOMAIN a : a[i].type \in ToolOutcomes =>
                  i > 1 /\ a[i - 1].type = "TOOL_CALL"

C2_Witness ==
    \E r \in Req : /\ Returned(r)
                   /\ CountType(r, "TOOL_ERROR") >= 1
                   /\ CountType(r, "TOOL_RESULT") >= 1
                   /\ CountType(r, "PLAN_END") = 1

\* ---------------------------------------------------------------- C3
\* C3 as stated: the number of PLAN_MODEL_RESPONSE events is at most the configured
\* max_turns, for every configured value.
C3_Original ==
    \A r \in Req : CountType(r, "PLAN_MODEL_RESPONSE") <= cfgMaxTurns

\* C3 amended: the number of PLAN_MODEL_RESPONSE events is at most the turn budget in
\* force: the configured max_turns when it is at least 1, and 3 when the configured
\* value is zero or negative.
C3_Amended ==
    \A r \in Req : CountType(r, "PLAN_MODEL_RESPONSE") <= EffectiveMaxTurns

C3_Witness ==
    \E r \in Req : /\ cfgMaxTurns >= 1
                   /\ CountType(r, "PLAN_MODEL_RESPONSE") = cfgMaxTurns
                   /\ Exhausted(r)

\* ---------------------------------------------------------------- C4
\* The model replied with a tool call on every turn so far.
AlwaysToolCall(r) ==
    /\ FailedOps(r, "model") = {}
    /\ \A a \in {Audit(r)} : \A i \in DOMAIN a :
          a[i].type = "PLAN_MODEL_RESPONSE" => a[i].text \in {Str(t) : t \in ToolPlans}

\* C4: when the model returns a tool call on every turn, whether the sandbox calls
\* succeed or fail, AgentLoop makes exactly max_turns model calls and max_turns tool
\* dispatches and returns the sentinel with a nil error.  It terminates: the model
\* calls never exceed max_turns, the turn counter never exceeds max_turns + 1, and a
\* request that has not been answered can always take its next step.
C4_BoundedLoop ==
    \A r \in Req :
        /\ CountOps(r, "model") <= EffectiveMaxTurns
        /\ CountOps(r, "tool") <= CountOps(r, "model")
        /\ turn[r] <= EffectiveMaxTurns + 1
        /\ (Returned(r) /\ AlwaysToolCall(r)) =>
              /\ CountOps(r, "model") = EffectiveMaxTurns
              /\ CountOps(r, "tool") = EffectiveMaxTurns
              /\ ret[r].result = SentinelText
              /\ ret[r].err = NoErr
        /\ pc[r] \notin {"off", "done"} => ENABLED (HandlePlan(r) \/ AgentLoop(r) \/ Respond(r))

C4_Witness ==
    \E r \in Req : /\ Returned(r) /\ AlwaysToolCall(r)
                   /\ CountOps(r, "model") = 3
                   /\ FailedOps(r, "tool") # {}
                   /\ CountType(r, "TOOL_RESULT") >= 1

\* ---------------------------------------------------------------- C5
\* C5: a failed GetPlan call is followed by the PLAN_ERROR record and by nothing
\* else: no further audit event, tool dispatch, memory write or notification; the
\* request returns a non-nil error and an empty result.
C5_ModelErrorIsFatal ==
    \A r \in Req : \A i \in FailedOps(r, "model") :
        IF i = Len(ops[r])
           THEN pc[r] = "plan_error" /\ ~Returned(r)
           ELSE /\ i + 1 = Len(ops[r])
                /\ ops[r][i + 1].op = "audit" /\ ops[r][i + 1].type = "PLAN_ERROR"
                /\ Returned(r) /\ ret[r].err # NoErr /\ ret[r].result = <<>>

C5_Witness ==
    \E r \in Req : /\ Returned(r) /\ FailedOps(r, "model") # {}
                   /\ ~cancelled[r]
                   /\ CountType(r, "TOOL_RESULT") >= 1
                   /\ ops[r][Len(ops[r])].ok

\* ---------------------------------------------------------------- C6
\* C6: AgentLoop returns a non-nil error exactly when a GetPlan call failed.  It
\* returns only at its three exits, whatever best-effort call failed before: after
\* the PLAN_ERROR record, after the COMPLETED publish, or when turn exceeds maxTurns.
C6_OnlyModelErrorFails ==
    \A r \in Req : Returned(r) =>
        \A last \in {ops[r][Len(ops[r])]} :
            /\ (ret[r].err # NoErr) <=> (FailedOps(r, "model") # {})
            /\ \/ /\ ret[r].err # NoErr
                  /\ last.op = "audit" /\ last.type = "PLAN_ERROR"
               \/ /\ ret[r].err = NoErr /\ ~Exhausted(r)
                  /\ last.op = "publish" /\ last.text = <<"COMPLETED">>
                  /\ CountType(r, "PLAN_END") = 1
               \/ /\ ret[r].err = NoErr /\ Exhausted(r)
                  /\ CountOps(r, "model") = maxTurns[r]

C6_Witness ==
    \E r \in Req : /\ Returned(r) /\ ret[r].err = NoErr /\ ~Exhausted(r)
                   /\ FailedOps(r, "store") # {}
                   /\ CountOps(r, "tool") >= 1

\* ---------------------------------------------------------------- C7
\* C7: a failed ExecuteTool call comes right after the TOOL_CALL record of its turn
\* and is followed by the TOOL_ERROR record with the error text; that text is
\* appended to the working prompt; the next operations, if any, are those of the next
\* turn (session-history fetch, RAG fetch, model call); the request returns after it
\* only when the turn budget is used up, and then with the sentinel and a nil error.
C7_ToolErrorFedBack ==
    \A r \in Req : \A i \in FailedOps(r, "tool") :
        \A o \in {ops[r]} :
            /\ i > 1 /\ o[i - 1].op = "audit" /\ o[i - 1].type = "TOOL_CALL"
            /\ o[i - 1].tool = o[i].tool_name
            /\ IF i = Len(o) THEN pc[r] = "tool_error"
               ELSE /\ o[i + 1].op = "audit" /\ o[i + 1].type = "TOOL_ERROR"
                    /\ o[i + 1].tool = o[i].tool_name
                    /\ o[i + 1].text # <<>>
                    /\ IF i + 1 = Len(o)
                          THEN /\ IsSuffix(<<"\n\nTool error: ">> \o o[i + 1].text, prompt[r])
                               /\ Returned(r) =>
                                     /\ turn[r] > maxTurns[r]
                                     /\ ret[r].err = NoErr /\ ret[r].result = SentinelText
                               /\ ~Returned(r) => pc[r] \in {"loop", "history"}
                          ELSE /\ o[i + 2].op = "history"
                               /\ Len(o) >= i + 3 => o[i + 3].op = "rag"
                               /\ Len(o) >= i + 4 => o[i + 4].op = "model"

C7_Witness ==
    \E r \in Req : /\ Returned(r) /\ FailedOps(r, "tool") # {}
                   /\ ~cancelled[r]
                   /\ CountType(r, "PLAN_END") = 1
                   /\ ret[r].err = NoErr

\* ---------------------------------------------------------------- C8
\* The three notifications of a finalized request, for the final plan p.
FinalNotifications(p) ==
    <<[form |-> "status", text |-> <<"STARTED">>],
      [form |-> "result", text |-> p],
      [form |-> "status", text |-> <<"COMPLETED">>]>>

\* C8: once PLAN_END is in a request's audit stream, the notifications it published
\* are a prefix of STARTED, result (carrying the final plan), COMPLETED, and exactly
\* these three when AgentLoop has returned; with the broker up and no publish
\* failing, these are the messages on the channel.
C8_NotificationOrder ==
    \A r \in Req : \A a \in {Audit(r)} : \A i \in DOMAIN a : a[i].type = "PLAN_END" =>
        \A want \in {FinalNotifications(a[i].text)}, pubs \in {Published(r)} :
            /\ Len(pubs) >= 1
            /\ IsPrefix(pubs, want)
            /\ Returned(r) =>
                  /\ pubs = want
                  /\ ret[r].result = a[i].text
                  /\ (redisUp /\ FailedOps(r, "publish") = {}) => Delivered(r) = want

C8_Witness ==
    \E r \in Req : /\ Returned(r) /\ CountType(r, "PLAN_END") = 1
                   /\ redisUp /\ Len(channel) = 3
                   /\ CountOps(r, "tool") >= 1

\* ---------------------------------------------------------------- C9
\* C9: when the turn budget is exhausted AgentLoop returns the sentinel with a nil
\* error; STARTED is the only notification of the request; no playbook is stored and
\* the only session deltas stored are the [tool-plan] / [tool-output] ones.
C9_BudgetExhausted ==
    \A r \in Req : Exhausted(r) =>
        /\ ret[r].result = SentinelText /\ ret[r].err = NoErr
        /\ Published(r) = <<[form |-> "status", text |-> <<"STARTED">>]>>
        /\ Len(Delivered(r)) <= 1
        /\ CountOps(r, "playbook") = 0
        /\ \A i \in DOMAIN ops[r] : ops[r][i].op = "store" =>
              ops[r][i].user \in {<<"[tool-plan]">>, <<"[tool-output]">>}

C9_Witness ==
    \E r \in Req : /\ Exhausted(r) /\ hadToolStep[r]
                   /\ CountOps(r, "store") >= 2
                   /\ redisUp

\* ---------------------------------------------------------------- C10
\* C10: when the turn budget is exhausted the audit stream is PLAN_START followed by
\* max_turns groups of PLAN_MODEL_RESPONSE, TOOL_CALL, TOOL_RESULT or TOOL_ERROR, with
\* no terminal event; and a returned request without PLAN_END or PLAN_ERROR is one
\* whose turn budget was exhausted.
C10_Unterminated ==
    \A r \in Req : Returned(r) =>
        \A t \in {AuditTypes(r)} :
            /\ Exhausted(r) =>
                  /\ Len(t) = 1 + 3 * EffectiveMaxTurns
                  /\ t[1] = "PLAN_START"
                  /\ \A k \in 0 .. EffectiveMaxTurns - 1 :
                        /\ t[2 + 3 * k] = "PLAN_MODEL_RESPONSE"
                        /\ t[3 + 3 * k] = "TOOL_CALL"
                        /\ t[4 + 3 * k] \in ToolOutcomes
            /\ CountTerminals(r) = 0 => Exhausted(r) /\ ret[r].result = SentinelText

C10_Witness ==
    \E r \in Req : /\ Exhausted(r) /\ cfgMaxTurns = 1
                   /\ AuditTypes(r) = <<"PLAN_START", "PLAN_MODEL_RESPONSE", "TOOL_CALL",
                                        "TOOL_RESULT">>

\* ---------------------------------------------------------------- C11
\* C11: a POST /memory/playbook of a request comes only after a sandbox call of that
\* request succeeded (hadToolStep is true) and carries a sequence of at least three
\* entries; it is issued at finalization, right after the PLAN_END record, and at
\* most once; a request without a successful tool step issues none.
C11_PlaybookGuard ==
    \A r \in Req : \A o \in {ops[r]} :
        /\ Cardinality(OpsIn(o, "playbook")) <= 1
        /\ \A i \in OpsIn(o, "playbook") :
              /\ hadToolStep[r]
              /\ \E j \in 1 .. i - 1 : o[j].op = "tool" /\ o[j].ok
              /\ Len(o[i].history_sequence) >= 3
              /\ i > 1 /\ o[i - 1].op = "audit" /\ o[i - 1].type = "PLAN_END"
        /\ (\A j \in OpsIn(o, "tool") : ~o[j].ok) => OpsIn(o, "playbook") = {}

C11_Witness ==
    \E r \in Req : \E i \in OpsIn(ops[r], "playbook") :
        /\ Returned(r) /\ ops[r][i].ok
        /\ Len(ops[r][i].history_sequence) = 4
        /\ ops[r][i].prompt = basePrompt[r]

\* ---------------------------------------------------------------- C12
\* The request has passed traceIDMiddleware.
Started(r) == pc[r] \notin {"off", "idle"}
\* The operations of kind `kind` that any request issued with trace id t and that
\* reached the store, as pairs <<request, index>>.
StoredWithTrace(t, kind) ==
    UNION {{<<r, i>> : i \in {j \in DOMAIN ops[r] :
                                /\ ops[r][j].op = kind /\ ops[r][j].trace = t
                                /\ ops[r][j].ok /\ (kind = "publish" => ~ops[r][j].noop)}}
           : r \in Req}
\* The audit row / the channel message an operation writes.
RowOf(o) == [trace_id |-> o.trace, session_id |-> o.session, event_type |-> o.type,
             payload |-> [tool |-> o.tool, text |-> o.text, args |-> o.args]]
MessageOf(o) == [trace_id |-> o.trace, session_id |-> o.session, form |-> o.form,
                 text |-> o.text]
CountRows(t) == Cardinality({i \in DOMAIN auditDB : auditDB[i].trace_id = t})
CountMessages(t) == Cardinality({i \in DOMAIN channel : channel[i].trace_id = t})

\* C12: with requests running concurrently, the X-Trace-ID response header of a
\* request is the header the caller sent, or a generated id no other request has
\* when none was sent; it is the trace id of every audit event and notification the
\* request produces; and the rows and messages in the shared stores that carry a
\* trace id are exactly those written by the requests with that trace id.
C12_TraceId ==
    /\ \A r \in Req : Started(r) =>
          /\ xTraceID[r].echoed = traceID[r] /\ traceID[r] # <<>>
          /\ xTraceID[r].sent # <<>> => xTraceID[r].echoed = xTraceID[r].sent
          /\ xTraceID[r].sent = <<>> =>
                \A q \in Req \ {r} : Started(q) => xTraceID[q].echoed # xTraceID[r].echoed
          /\ \A i \in DOMAIN ops[r] : ops[r][i].op \in {"audit", "publish"} =>
                ops[r][i].trace = xTraceID[r].echoed
    /\ \A t \in {xTraceID[r].echoed : r \in {q \in Req : Started(q)}} :
          \A rows \in {StoredWithTrace(t, "audit")}, msgs \in {StoredWithTrace(t, "publish")} :
              /\ CountRows(t) = Cardinality(rows)
              /\ CountMessages(t) = Cardinality(msgs)
              /\ \A i \in DOMAIN auditDB : auditDB[i].trace_id = t =>
                    \E p \in rows : auditDB[i] = RowOf(ops[p[1]][p[2]])
              /\ \A i \in DOMAIN channel : channel[i].trace_id = t =>
                    \E p \in msgs : channel[i] = MessageOf(ops[p[1]][p[2]])
    /\ \A i \in DOMAIN auditDB : \E r \in Req : Started(r) /\ auditDB[i].trace_id = traceID[r]
    /\ \A i \in DOMAIN channel : \E r \in Req : Started(r) /\ channel[i].trace_id = traceID[r]

C12_Witness ==
    /\ \A r \in {1, 2} : Returned(r)
    /\ xTraceID[1].sent = <<"tc">> /\ xTraceID[2].sent = <<>>
    /\ Len(auditDB) >= 6 /\ Len(channel) >= 4
    /\ auditDB[1].trace_id # auditDB[2].trace_id /\ auditDB[3].trace_id = auditDB[1].trace_id
    /\ channel[1].trace_id # channel[2].trace_id

\* ---------------------------------------------------------------- C13
\* C13 as stated: once the context of a request is cancelled while AgentLoop runs, no
\* notification of the request reaches the channel any more, and when AgentLoop
\* returns it has recorded PLAN_ERROR and returns a non-nil error.
C13_Original ==
    [][\A r \in Req : cancelled[r] =>
          /\ \A i \in DOMAIN channel' : i > Len(channel) => channel'[i].trace_id # traceID[r]
          /\ (~Returned(r) /\ Returned(r)') =>
                /\ ret'[r].err # NoErr
                /\ CountType(r, "PLAN_ERROR")' = 1]_vars

\* The context was cancelled during finalization, or during the last turn's tool
\* call, and AgentLoop returned without an error.
C13_Witness ==
    \E r \in Req : /\ cancelled[r] /\ Returned(r) /\ ret[r].err = NoErr
                   /\ CountType(r, "PLAN_ERROR") = 0
                   /\ CountType(r, "PLAN_END") = 1

\* ---------------------------------------------------------------- C14
\* The text of the last PLAN_MODEL_RESPONSE event of the stream a: the last reply of
\* the model gateway.
LastModelReply(a) ==
    LET at == {i \in DOMAIN a : a[i].type = "PLAN_MODEL_RESPONSE"}
    IN  a[CHOOSE i \in at : \A j \in at : j <= i].text

\* C14 as stated: every result returned with a nil error is the last reply of the
\* model gateway in that request.
C14_Original ==
    \A r \in Req : (Returned(r) /\ ret[r].err = NoErr) =>
        \A a \in {Audit(r)} :
            /\ CountIn(a, "PLAN_MODEL_RESPONSE") >= 1
            /\ ret[r].result = LastModelReply(a)
            /\ ret[r].result \in {Str(t) : t \in env.replies}

\* C14 amended: a result returned with a nil error is the last reply of the model
\* gateway in that request (the plan recorded by PLAN_END), unless the turn budget
\* was exhausted: then it is the fixed sentinel text, which the driver composes and
\* which no model reply is.
C14_Amended ==
    \A r \in Req : (Returned(r) /\ ret[r].err = NoErr) =>
        \A a \in {Audit(r)} :
            IF Exhausted(r)
               THEN /\ ret[r].result = SentinelText
                    /\ ret[r].result \notin {Str(t) : t \in env.replies}
               ELSE /\ CountIn(a, "PLAN_MODEL_RESPONSE") >= 1
                    /\ ret[r].result = LastModelReply(a)
                    /\ ret[r].result = a[Len(a)].text /\ a[Len(a)].type = "PLAN_END"
                    /\ ret[r].result \in {Str(t) : t \in env.replies}

C14_Witness ==
    \E r \in Req : /\ Returned(r) /\ ret[r].err = NoErr /\ ~Exhausted(r)
                   /\ CountType(r, "PLAN_MODEL_RESPONSE") >= 2
                   /\ ret[r].result = Str(FinalText)

\* ---------------------------------------------------------------- C15
\* The event types and payloads of an audit stream, without the trace id.
Payloads(a) ==
    [i \in DOMAIN a |-> [type |-> a[i].type, tool |-> a[i].tool, text |-> a[i].text,
                         args |-> a[i].args]]
\* r and q are runs of AgentLoop with the same prompt and session id.
SameRun(r, q) ==
    /\ basePrompt[r] # <<>> /\ basePrompt[r] = basePrompt[q]
    /\ sessionID[r] = sessionID[q]

NotToolCalls == {Str(t) : t \in FinalPlans}

\* C16: when the first model response is no tool call, the request makes exactly
\* one pass: one model call, no tool dispatch, the audit stream PLAN_START,
\* PLAN_MODEL_RESPONSE, PLAN_END, and it returns that response with a nil error.
C16_SinglePass ==
    \A r \in Req : \A a \in {Audit(r)} :
        (Len(a) >= 2 /\ a[2].text \in NotToolCalls) =>
            /\ a[2].type = "PLAN_MODEL_RESPONSE"
            /\ IsPrefix(TypesOf(a), <<"PLAN_START", "PLAN_MODEL_RESPONSE", "PLAN_END">>)
            /\ CountOps(r, "model") = 1 /\ CountOps(r, "tool") = 0
            /\ CountOps(r, "history") = 1 /\ CountOps(r, "rag") = 1
            /\ Returned(r) =>
                  /\ Len(a) = 3 /\ a[3].text = a[2].text
                  /\ ret[r].result = a[2].text /\ ret[r].err = NoErr
                  /\ turn[r] = 1

C16_Witness ==
    \E r \in Req : /\ Returned(r) /\ maxTurns[r] >= 2
                   /\ Audit(r)[2].text = Str(FinalEmptyName)
                   /\ ret[r].result = Str(FinalEmptyName)

\* ---------------------------------------------------------------- C17
\* The plan is a JSON object whose field "tool" is an object with a string "name".
ToolName(planJSON) ==
    LET u == JsonUnmarshal(planJSON)
        named == /\ ~u.err /\ u.raw.k = "object"
                 /\ "tool" \in DOMAIN u.raw.m /\ u.raw.m["tool"].k = "object"
                 /\ "name" \in DOMAIN u.raw.m["tool"].m
                 /\ u.raw.m["tool"].m["name"].k = "string"
    IN  IF named THEN [has |-> TRUE, name |-> u.raw.m["tool"].m["name"].s]
                 ELSE [has |-> FALSE, name |-> ""]
\* Names that consist of white space only.
BlankNames == {" ", "  "}
\* The request has just applied tryParseToolCall to the model's reply.
Parsed(r) == pc[r] \in {"plan_end", "tool_call"}

\* C17 as stated: tryParseToolCall returns a tool call with that name exactly when
\* the plan is a JSON object whose "tool" is an object with a non-empty string
\* "name", and none otherwise.
C17_Original ==
    \A r \in Req : Parsed(r) =>
        \A n \in {ToolName(plan[r])} :
            IF n.has /\ n.name # ""
               THEN ~toolCall[r].nil /\ toolCall[r].Name = n.name
               ELSE toolCall[r] = NoToolCall

\* C17 amended: tryParseToolCall returns a tool call with that name exactly when the
\* plan is a JSON object whose "tool" is an object with a string "name" that is not
\* empty and not white space only; in every other case it returns none.  The value
\* it returns is all it produces: the request's other state is as before.
C17_Amended ==
    \A r \in Req : Parsed(r) =>
        \A n \in {ToolName(plan[r])} :
            /\ toolCall[r] = tryParseToolCall(plan[r])
            /\ IF n.has /\ n.name # "" /\ n.name \notin BlankNames
                  THEN ~toolCall[r].nil /\ toolCall[r].Name = n.name
                  ELSE toolCall[r] = NoToolCall
            /\ pc[r] = (IF toolCall[r].nil THEN "plan_end" ELSE "tool_call")

C17_Witness ==
    \E r \in Req : /\ Parsed(r) /\ plan[r] = Str(ToolPadded)
                   /\ toolCall[r].Name = "t" /\ turn[r] = 2

\* ---------------------------------------------------------------- C18
\* The session-delta stores of the FINALIZE path in the log o: those issued after
\* the PLAN_END record.
FinalStores(o) ==
    {i \in OpsIn(o, "store") : \E j \in 1 .. i - 1 : o[j].op = "audit" /\ o[j].type = "PLAN_END"}

\* C18 as stated: the session delta stored on the FINALIZE path has the request's
\* original prompt as user content and the final plan as assistant content, after
\* any number of tool turns.
C18_Original ==
    \A r \in Req : \A o \in {ops[r]} : \A i \in FinalStores(o) :
        /\ o[i].user = basePrompt[r]
        /\ o[i].assistant = plan[r]

\* A final session delta whose user content is the working prompt grown by a tool
\* turn, not the original prompt.
C18_Witness ==
    \E r \in Req : \E i \in FinalStores(ops[r]) :
        /\ Returned(r)
        /\ ops[r][i].user # basePrompt[r] /\ ops[r][i].user = prompt[r]
        /\ IsPrefix(basePrompt[r], ops[r][i].user)
        /\ ops[r][i].assistant = ret[r].result

\* ---------------------------------------------------------------- C19
\* The log o holds, before position i, the record of an event of this type; `last`
\* asks for it to be the operation right before i.
RecordedBefore(o, i, type, last) ==
    \E j \in (IF last THEN {i - 1} \cap DOMAIN o ELSE 1 .. i - 1) :
        o[j].op = "audit" /\ o[j].type = type

\* C19: RecordStep is called with the step's event before the step's visible side
\* effect is issued: PLAN_START right before the STARTED publish; TOOL_CALL, with the
\* same tool name, right before the sandbox dispatch; PLAN_END before the playbook
\* POST, the final session-delta store, the result notification and the COMPLETED
\* publish, with no other audit event in between.
C19_AuditFirst ==
    \A r \in Req : \A o \in {ops[r]} : \A i \in DOMAIN o :
        /\ (o[i].op = "publish" /\ o[i].text = <<"STARTED">> /\ o[i].form = "status") =>
              RecordedBefore(o, i, "PLAN_START", TRUE)
        /\ o[i].op = "tool" =>
              RecordedBefore(o, i, "TOOL_CALL", TRUE) /\ o[i - 1].tool = o[i].tool_name
        /\ (\/ o[i].op = "playbook"
            \/ o[i].op = "store" /\ o[i].user \notin {<<"[tool-plan]">>, <<"[tool-output]">>}
            \/ o[i].op = "publish" /\ o[i].form = "result"
            \/ o[i].op = "publish" /\ o[i].form = "status" /\ o[i].text = <<"COMPLETED">>) =>
              /\ RecordedBefore(o, i, "PLAN_END", FALSE)
              /\ \A j \in 1 .. i - 1 : (o[j].op = "audit" /\ o[j].type = "PLAN_END") =>
                    \A k \in j + 1 .. i : o[k].op # "audit"

C19_Witness ==
    \E r \in Req : /\ Returned(r)
                   /\ CountOps(r, "playbook") = 1 /\ CountOps(r, "tool") >= 1
                   /\ Len(Published(r)) = 3

\* ---------------------------------------------------------------- C20
\* s is an interleaving of a and b.
RECURSIVE IsMerge(_, _, _)
IsMerge(s, a, b) ==
    IF s = <<>> THEN a = <<>> /\ b = <<>>
    ELSE \/ a # <<>> /\ Head(a) = Head(s) /\ IsMerge(Tail(s), Tail(a), b)
         \/ b # <<>> /\ Head(b) = Head(s) /\ IsMerge(Tail(s), a, Tail(b))

\* The rows request r wrote to the audit table, in the order it wrote them.
IsStoredAudit(o) == o.op = "audit" /\ o.ok
RowsOf(o) == [i \in DOMAIN o |-> RowOf(o[i])]
OwnRows(r) == RowsOf(SelectSeq(ops[r], IsStoredAudit))
\* The rows of the audit table that carry trace id t.
RowsWithTrace(t) ==
    LET has(row) == row.trace_id = t
    IN  SelectSeq(auditDB, has)

\* The per-turn order of the single-request loop on the event types t: PLAN_START
\* first and only first; a model response or PLAN_ERROR opens a turn; TOOL_CALL
\* follows a model response and is followed by its outcome; PLAN_END follows a model
\* response; nothing follows a terminal event.
TurnOrder(t) ==
    \A i \in DOMAIN t :
        IF i = 1 THEN t[i] = "PLAN_START"
        ELSE CASE t[i] \in {"PLAN_MODEL_RESPONSE", "PLAN_ERROR"} ->
                      t[i - 1] \in {"PLAN_START", "TOOL_RESULT", "TOOL_ERROR"}
               [] t[i] \in {"TOOL_CALL", "PLAN_END"} -> t[i - 1] = "PLAN_MODEL_RESPONSE"
               [] t[i] \in ToolOutcomes -> t[i - 1] = "TOOL_CALL"
               [] OTHER -> FALSE

\* The working prompt, the flag and the playbook sequence as the request's own
\* events a determine them, starting from its own prompt.
RECURSIVE PromptAfter(_, _, _)
PromptAfter(a, i, p) ==
    IF i > Len(a) THEN p
    ELSE PromptAfter(a, i + 1,
             CASE a[i].type = "TOOL_ERROR" -> p \o <<"\n\nTool error: ">> \o a[i].text
               [] a[i].type = "TOOL_RESULT" -> buildFollowupPrompt(p, a[i - 2].text, a[i].text)
               [] OTHER -> p)
RECURSIVE PlaybookAfter(_, _, _)
PlaybookAfter(a, i, seq) ==
    IF i > Len(a) THEN seq
    ELSE PlaybookAfter(a, i + 1,
             CASE a[i].type = "TOOL_RESULT" ->
                      seq \o <<[role |-> "assistant", content |-> a[i - 2].text],
                               [role |-> "tool_result", content |-> a[i].text]>>
               [] a[i].type = "PLAN_MODEL_RESPONSE" /\ tryParseToolCall(a[i].text).nil ->
                      Append(seq, [role |-> "assistant", content |-> a[i].text])
               [] OTHER -> seq)
\* The request has set up the loop's locals (it has issued the STARTED publish).
InLoop(r) == CountOps(r, "publish") >= 1
\* The state of request r that its AgentLoop invocation owns.
Private(r) == <<turn[r], prompt[r], hadToolStep[r], playbookSeq[r], maxTurns[r], pc[r],
                ops[r], ret[r]>>

\* C20: with requests interleaved in any way, (1) the rows of the shared audit table
\* with a trace id are the rows of the request with that trace id in the order it
\* wrote them (an interleaving of the two requests' rows when both carry the same
\* trace id), and that order is the per-turn order of the loop; (2) the turn
\* counter, working prompt, hadToolStep flag and playbook sequence of a request are
\* what its own events determine; (3) every step changes the private state of one
\* request only and leaves the configuration and the clients as they are.
C20_Isolation ==
    /\ [](\A r \in Req : \A a \in {Audit(r)} :
            /\ TurnOrder(TypesOf(a))
            /\ Started(r) =>
                  IF \E q \in Req \ {r} : Started(q) /\ traceID[q] = traceID[r]
                     THEN \A q \in Req \ {r} : (Started(q) /\ traceID[q] = traceID[r]) =>
                             IsMerge(RowsWithTrace(traceID[r]), OwnRows(r), OwnRows(q))
                     ELSE RowsWithTrace(traceID[r]) = OwnRows(r)
            /\ prompt[r] = PromptAfter(a, 1, basePrompt[r])
            /\ hadToolStep[r] = (CountIn(a, "TOOL_RESULT") >= 1)
            /\ ~InLoop(r) => playbookSeq[r] = <<>> /\ turn[r] = 0
            /\ InLoop(r) =>
                  /\ playbookSeq[r] =
                        PlaybookAfter(a, 1, <<[role |-> "user", content |-> basePrompt[r]]>>)
                  /\ turn[r] = 1 + CountIn(a, "TOOL_ERROR")
                                 + Cardinality({i \in OpsIn(ops[r], "store") :
                                                   ops[r][i].user = <<"[tool-output]">>}))
    /\ [][/\ \E q \in Req : \A r \in Req \ {q} : Private(r)' = Private(r)
          /\ UNCHANGED shared]_vars

C20_Witness ==
    /\ \A r \in {1, 2} : Returned(r) /\ Len(OwnRows(r)) >= 3
    /\ traceID[1] # traceID[2]
    /\ hadToolStep[1] /\ ~hadToolStep[2] /\ turn[1] = 2 /\ turn[2] = 1
    /\ auditDB[1].trace_id = traceID[2] /\ auditDB[2].trace_id = traceID[1]
    /\ auditDB[Len(auditDB)].trace_id = traceID[2]

\* ---------------------------------------------------------------- C21
BadRequest == [status |-> 400, body |-> <<"Prompt and session_id are required">>]

\* C21: a request whose body decodes but whose prompt or session_id is empty is
\* answered 400 "Prompt and session_id are required" and AgentLoop is not invoked
\* for it: it issues no audit record, no publish and no call on any collaborator,
\* and no audit row or channel message carries its trace id.  A request with both
\* fields non-empty is not answered 400 and enters AgentLoop with these values.
C21_EmptyFieldsRejected ==
    \A r \in Req : (Started(r) /\ planReq[r].decoded) =>
        IF planReq[r].Prompt = <<>> \/ planReq[r].SessionID = <<>>
           THEN /\ pc[r] = "done" /\ resp[r] = BadRequest
                /\ ops[r] = <<>> /\ ~Returned(r) /\ turn[r] = 0
                /\ \A i \in DOMAIN auditDB : auditDB[i].trace_id # traceID[r]
                /\ \A i \in DOMAIN channel : channel[i].trace_id # traceID[r]
           ELSE /\ resp[r].status # 400
                /\ basePrompt[r] = planReq[r].Prompt /\ sessionID[r] = planReq[r].SessionID
                /\ pc[r] = "done" => Returned(r) /\ ops[r] # <<>>

C21_Witness ==
    \E r \in Req : /\ planReq[r].decoded
                   /\ planReq[r].Prompt # <<>> /\ planReq[r].SessionID = <<>>
                   /\ resp[r] = BadRequest /\ ops[r] = <<>>

\* ---------------------------------------------------------------- C22
\* The errors the model RPC can fail with: the internal detail of a failure.
ErrorDetails == {RpcError, CtxCanceled}
\* The text e occurs in the text body.
Mentions(body, e) == \E i \in 1 .. (Len(body) - Len(e) + 1) : SubSeq(body, i, i + Len(e) - 1) = e

\* C22 as stated: when AgentLoop returns an error the response is 500 and its error
\* body mentions nothing of the underlying failure (so it is the same whatever the
\* failure was).
C22_Original ==
    \A r \in Req : (pc[r] = "done" /\ Returned(r) /\ ret[r].err # NoErr) =>
        /\ resp[r].status = 500
        /\ \A e \in ErrorDetails : ~Mentions(resp[r].body, e)

\* A 500 response whose body carries the text of the RPC error.
C22_Witness ==
    \E r \in Req : /\ resp[r].status = 500
                   /\ resp[r].body = <<"Agent execution failed: ", "GetPlan: ">> \o RpcError
                   /\ ret[r].err = <<"GetPlan: ">> \o RpcError

\* ---------------------------------------------------------------- C23
\* The publishes of request r were made with a nil broker client.
BrokerDown(r) == \E i \in OpsIn(ops[r], "publish") : ops[r][i].noop

\* C23: when only the broker's ping fails at startup NewPlanner still returns a
\* Planner, with a nil broker client for the rest of that process; every publish of a
\* request served by it is a no-op (nothing reaches the channel); the request still
\* stores its whole audit stream; and a request served without the broker issues the
\* audit events and notifications and returns the result and error of the same
\* request served, against the same collaborators, by a process with the broker.
C23_BrokerOptional ==
    /\ [](/\ (planner.starts >= 1 /\ planner.failedAt = "none") =>
                /\ planner.state # "failed"
                /\ redisUp = planner.pingOk
                /\ ~planner.pingOk => planner.res["redis"] = "closed"
          /\ \A r \in Req : \A o \in {ops[r]} :
                /\ \A i \in OpsIn(o, "publish") : o[i].noop = BrokerDown(r)
                /\ BrokerDown(r) =>
                      \A i \in DOMAIN channel : channel[i].trace_id # traceID[r]
                /\ Started(r) => RowsWithTrace(traceID[r]) = RowsOf(Audit(r))
          /\ \A r \in Req : \A q \in Req : (r < q /\ SameRun(r, q) /\ Returned(r)) =>
                \A ar \in {Payloads(Audit(r))}, aq \in {Payloads(Audit(q))} :
                    /\ IsPrefix(aq, ar) /\ IsPrefix(Published(q), Published(r))
                    /\ Returned(q) => aq = ar /\ ret[q] = ret[r] /\ Published(q) = Published(r)
                    /\ (pc[q] = "done" /\ pc[r] = "done") => resp[q] = resp[r])
    /\ [][/\ (~redisUp /\ planner.state = "up") => channel' = channel
          /\ redisUp' # redisUp => planner'.starts = planner.starts + 1]_vars

C23_Witness ==
    /\ SameRun(1, 2) /\ pc[1] = "done" /\ pc[2] = "done"
    /\ ~BrokerDown(1) /\ BrokerDown(2)
    /\ CountType(2, "TOOL_RESULT") = 1 /\ CountType(2, "PLAN_END") = 1
    /\ resp[2].status = 200
    /\ Len(channel) = 3 /\ Len(auditDB) = 2 * Len(Audit(2))

\* ---------------------------------------------------------------- C24
\* The resources of the events of kind ev in the lifecycle trace t, in order; a
\* Close() on a resource that was closed before releases nothing and is left out.
IsAcquire(e) == e.ev = "acquire"
IsFirstRelease(e) == e.ev = "release" /\ ~e.again
NamesOf(t) == [i \in DOMAIN t |-> t[i].res]
Acquired(t) == NamesOf(SelectSeq(t, IsAcquire))
Released(t) == NamesOf(SelectSeq(t, IsFirstRelease))

\* C24 as stated: once Planner.Close has run, the resources were released in the
\* reverse of the order in which NewPlanner acquired them.
C24_Original ==
    planner.state = "closed" => Released(planner.trace) = Reverse(Acquired(planner.trace))

\* Close has run on a Planner that holds all five resources and released them in the
\* order of acquisition: model connection first, broker client last.
C24_Witness ==
    /\ planner.state = "closed" /\ planner.pingOk
    /\ Acquired(planner.trace) = Resources
    /\ Released(planner.trace) = Resources
    /\ \A x \in ResourceNames : planner.res[x] = "closed"

\* ---------------------------------------------------------------- C25
\* The step is a call of Planner.Close.
CloseCalled == planner'.closeCalls = planner.closeCalls + 1

ConfiguredTurns(r) == Audit(r)[1].args.n
Configured(r) == Len(Audit(r)) >= 1
\* What request r did, without the trace id and without the max_turns field of
\* PLAN_START: its audit events, its notifications and its calls, in order.
Visible(r) ==
    [i \in DOMAIN ops[r] |->
        LET o == ops[r][i]
        IN  CASE o.op = "audit" ->
                   [op |-> "audit", type |-> o.type, tool |-> o.tool, text |-> o.text,
                    args |-> IF o.type = "PLAN_START" THEN GoNil ELSE o.args, ok |-> o.ok]
              [] o.op = "publish" ->
                   [op |-> "publish", form |-> o.form, text |-> o.text, ok |-> o.ok]
              [] OTHER -> o]

\* C26: a request served with a configured max_turns of zero or less runs the loop
\* with a budget of 3: at most 3 model calls, and when all 3 turns end in a tool call
\* the sentinel is returned after exactly 3; its events, notifications, calls, result,
\* error and response are those of the same request served, against the same
\* collaborators, with max_turns configured as 3.
C26_NonPositiveIsThree ==
    \A q \in Req : (Configured(q) /\ ConfiguredTurns(q) <= 0) =>
        /\ InLoop(q) => maxTurns[q] = 3
        /\ CountOps(q, "model") <= 3 /\ turn[q] <= 3 + 1
        /\ Exhausted(q) =>
              /\ CountOps(q, "model") = 3 /\ CountOps(q, "tool") = 3
              /\ ret[q].result = SentinelText /\ ret[q].err = NoErr
        /\ \A r \in Req \ {q} :
              (Configured(r) /\ ConfiguredTurns(r) = 3 /\ SameRun(r, q)
               /\ Returned(r) /\ Returned(q)) =>
                  /\ Visible(q) = Visible(r)
                  /\ ret[q] = ret[r]
                  /\ (pc[q] = "done" /\ pc[r] = "done") => resp[q] = resp[r]

C26_Witness ==
    /\ SameRun(1, 2) /\ pc[1] = "done" /\ pc[2] = "done"
    /\ ConfiguredTurns(1) = 3 /\ ConfiguredTurns(2) = 0
    /\ Exhausted(2) /\ CountOps(2, "model") = 3
    /\ CountType(2, "TOOL_ERROR") = 1 /\ CountType(2, "TOOL_RESULT") = 2
    /\ resp[2].body = SentinelText

\* ---------------------------------------------------------------- C27
\* The tool outputs of the sandbox replies that report a status other than "ok".
NonOkOutputs == {MarshalToolOut(out) : out \in {o \in SandboxReplies : o.status # "ok"}}
\* The text b occurs in the sequence seq as consecutive entries.
HasPair(seq, a, b) == \E k \in 1 .. Len(seq) - 1 : seq[k] = a /\ seq[k + 1] = b

\* C27: a sandbox call that was delivered is followed by TOOL_RESULT with the tool's
\* name, never by TOOL_ERROR (TOOL_ERROR follows only a call that was not delivered),
\* also when the reply reports a status other than "ok".  For such a reply the
\* TOOL_RESULT text is the JSON of {status, stdout, stderr}; hadToolStep is true; the
\* plan and that JSON are appended to the playbook sequence and, as plan block and
\* tool-result block, to the working prompt; and the loop goes on: the two session
\* deltas are stored and the next turn starts, or the turn budget is used up.
C27_NonOkIsResult ==
    \A r \in Req : \A o \in {ops[r]} : \A i \in DOMAIN o :
        /\ (o[i].op = "tool" /\ o[i].ok /\ i < Len(o)) =>
              /\ o[i + 1].op = "audit" /\ o[i + 1].type = "TOOL_RESULT"
              /\ o[i + 1].tool = o[i].tool_name
        /\ (o[i].op = "audit" /\ o[i].type = "TOOL_ERROR") =>
              o[i - 1].op = "tool" /\ ~o[i - 1].ok
        /\ (o[i].op = "audit" /\ o[i].type = "TOOL_RESULT" /\ o[i].text \in NonOkOutputs) =>
              \A p \in {o[i - 3].text} :
                  /\ o[i - 3].type = "PLAN_MODEL_RESPONSE" /\ o[i - 1].op = "tool" /\ o[i - 1].ok
                  /\ hadToolStep[r]
                  /\ HasPair(playbookSeq[r], [role |-> "assistant", content |-> p],
                             [role |-> "tool_result", content |-> o[i].text])
                  /\ Mentions(prompt[r], <<"\n\n<plan>\n">> \o p
                                         \o <<"\n</plan>\n\n<tool_result>\n">> \o o[i].text
                                         \o <<"\n</tool_result>\n">>)
                  /\ i + 1 <= Len(o) => o[i + 1].op = "store" /\ o[i + 1].user = <<"[tool-plan]">>
                  /\ i + 2 <= Len(o) => o[i + 2].op = "store" /\ o[i + 2].user = <<"[tool-output]">>
                  /\ i + 3 <= Len(o) => o[i + 3].op = "history"
                  /\ (Returned(r) /\ i + 2 = Len(o)) =>
                        Exhausted(r) /\ ret[r].err = NoErr

C27_Witness ==
    \E r \in Req : \E i \in DOMAIN ops[r] :
        /\ ops[r][i].op = "audit" /\ ops[r][i].type = "TOOL_RESULT"
        /\ ops[r][i].text \in NonOkOutputs
        /\ Returned(r) /\ CountType(r, "PLAN_END") = 1 /\ CountOps(r, "playbook") = 1
        /\ CountType(r, "TOOL_ERROR") = 0

\* ---------------------------------------------------------------- C28
IsNotAudit(o) == o.op # "audit"
\* What request r did besides recording audit events: its notifications and its
\* calls on the memory service, the model and the sandbox, in order.
Calls(r) == SelectSeq(Visible(r), IsNotAudit)
\* Every audit write of request r succeeded.
AuditIntact(r) == FailedOps(r, "audit") = {}

\* C28: whichever audit writes of a request fail, the request issues the same audit
\* events and makes the same calls (tool dispatches, memory reads and writes, model
\* calls, publishes), delivers the same notifications, ends with the same working
\* prompt and playbook sequence and returns the same result, error and response as
\* the same request served, against the same collaborators, with every audit write
\* succeeding; only the rows in the audit table differ (a failed write leaves none).
C28_AuditBestEffort ==
    \A r \in Req : \A q \in Req \ {r} :
        (SameRun(r, q) /\ Returned(r) /\ AuditIntact(r)) =>
            /\ IsPrefix(Calls(q), Calls(r))
            /\ IsPrefix(Payloads(Audit(q)), Payloads(Audit(r)))
            /\ Len(RowsWithTrace(traceID[q])) = Len(Audit(q)) - Cardinality(FailedOps(q, "audit"))
            /\ Returned(q) =>
                  /\ Calls(q) = Calls(r)
                  /\ Payloads(Audit(q)) = Payloads(Audit(r))
                  /\ Delivered(q) = Delivered(r)
                  /\ ret[q] = ret[r]
                  /\ prompt[q] = prompt[r] /\ playbookSeq[q] = playbookSeq[r]
                  /\ (pc[q] = "done" /\ pc[r] = "done") => resp[q] = resp[r]

C28_Witness ==
    /\ SameRun(1, 2) /\ pc[1] = "done" /\ pc[2] = "done"
    /\ AuditIntact(1) /\ Len(RowsWithTrace(traceID[1])) = 6
    /\ RowsWithTrace(traceID[2]) = <<>> /\ Len(Audit(2)) = 6
    /\ CountOps(2, "playbook") = 1 /\ CountOps(2, "tool") = 1 /\ Len(Delivered(2)) = 3
    /\ resp[2].status = 200

\* ---------------------------------------------------------------- C29
\* The step a call of the driver stands for on the FINALIZE path.
StepOf(o) ==
    IF o.op = "audit" THEN o.type
    ELSE IF o.op = "publish"
            THEN (IF o.form = "result" THEN "result"
                  ELSE IF o.text = <<"COMPLETED">> THEN "COMPLETED" ELSE "status")
            ELSE o.op
StepsOf(t) == [k \in DOMAIN t |-> StepOf(t[k])]

\* The calls of the FINALIZE path, with or without the POST of the playbook.
FinalizeSteps(withPlaybook) ==
    <<"PLAN_END">> \o (IF withPlaybook THEN <<"playbook">> ELSE <<>>)
                   \o <<"store", "result", "COMPLETED">>

Finalizing(r) == \E i \in DOMAIN ops[r] : StepOf(ops[r][i]) = "PLAN_END"
PlanEndAt(r) == CHOOSE i \in DOMAIN ops[r] : StepOf(ops[r][i]) = "PLAN_END"
\* The calls of request r from the record of PLAN_END on.
FinalizeTail(r) == SubSeq(ops[r], PlanEndAt(r), Len(ops[r]))

\* C29: when PLAN_END is about to be recorded, {assistant, plan} is already the last
\* entry of the playbook sequence. From the record of PLAN_END on, the calls of the
\* request are, in this order and once each: the record of PLAN_END, the POST of the
\* playbook (exactly when a tool step took place), the store of the final session
\* delta, the result notification, the COMPLETED status; AgentLoop returns with the
\* last of them, and it returns the plan with a nil error. Which of the calls failed
\* plays no part: a failed call is followed by the same calls as a successful one.
C29_FinalizeOrder ==
    \A r \in Req :
        /\ pc[r] = "plan_end" =>
              /\ ~Finalizing(r)
              /\ playbookSeq[r] # <<>>
              /\ playbookSeq[r][Len(playbookSeq[r])] = [role |-> "assistant", content |-> plan[r]]
        /\ Finalizing(r) =>
              \A t \in {FinalizeTail(r)}, want \in {FinalizeSteps(hadToolStep[r])} :
                  /\ IsPrefix(StepsOf(t), want)
                  /\ Returned(r) <=> Len(t) = Len(want)
                  /\ Returned(r) => ret[r] = [returned |-> TRUE, result |-> t[1].text, err |-> NoErr]
                  /\ \A k \in DOMAIN t :
                        /\ StepOf(t[k]) = "playbook" =>
                              /\ t[k].history_sequence = playbookSeq[r]
                              /\ t[k].history_sequence[Len(playbookSeq[r])].content = t[1].text
                        /\ StepOf(t[k]) = "store" => t[k].assistant = t[1].text
                        /\ StepOf(t[k]) = "result" => t[k].text = t[1].text

\* A request whose context was cancelled after the model answered a follow-up turn:
\* all five calls of the FINALIZE path failed, all five were made, and the plan was
\* returned.
C29_Witness ==
    \E r \in Req :
        /\ Finalizing(r) /\ Returned(r) /\ hadToolStep[r] /\ cancelled[r]
        /\ StepsOf(FinalizeTail(r)) = FinalizeSteps(TRUE)
        /\ \A k \in DOMAIN FinalizeTail(r) : ~FinalizeTail(r)[k].ok
        /\ ret[r].result = plan[r] /\ ret[r].err = NoErr

\* ---------------------------------------------------------------- C30
\* The tool outputs the sandbox replies marshal to.
ToolOutputs == {MarshalToolOut(out) : out \in SandboxReplies}
\* The working prompt of the turn whose calls end at index i of o: the query of the
\* turn's RAG call.
TurnPrompt(o, i) == o[i - 5].query

\* C30: a sandbox call that returned without error is followed by the record of
\* TOOL_RESULT; until that record is made the working prompt is still the one the
\* turn started with, and right after it the working prompt is that prompt extended
\* by the plan block and the tool-result block.  The next calls of the request are
\* the store of (user "[tool-plan]", assistant plan) and then the store of (user
\* "[tool-output]", assistant tool output JSON), whether or not they succeed; only
\* then does the next turn fetch its context, with the extended prompt as RAG query,
\* and call the model (or the turn budget is used up and no call follows).
C30_ToolResultOrder ==
    \A r \in Req : \A o \in {ops[r]} :
        /\ pc[r] = "tool_result" =>
              /\ o[Len(o)].op = "tool" /\ o[Len(o)].ok
              /\ prompt[r] = TurnPrompt(o, Len(o) + 1)
        /\ pc[r] = "store_tool_plan" =>
              /\ StepOf(o[Len(o)]) = "TOOL_RESULT"
              /\ prompt[r] = buildFollowupPrompt(TurnPrompt(o, Len(o)), plan[r], toolOut[r])
        /\ \A i \in DOMAIN o :
              /\ (o[i].op = "tool" /\ o[i].ok /\ i < Len(o)) => StepOf(o[i + 1]) = "TOOL_RESULT"
              /\ StepOf(o[i]) = "TOOL_RESULT" =>
                    \A p \in {o[i - 3].text}, out \in {o[i].text} :
                        /\ o[i - 5].op = "rag" /\ o[i - 4].op = "model"
                        /\ StepOf(o[i - 3]) = "PLAN_MODEL_RESPONSE"
                        /\ o[i - 1].op = "tool" /\ o[i - 1].ok
                        /\ out \in ToolOutputs
                        /\ i + 1 <= Len(o) =>
                              /\ o[i + 1].op = "store"
                              /\ o[i + 1].user = <<"[tool-plan]">> /\ o[i + 1].assistant = p
                        /\ i + 2 <= Len(o) =>
                              /\ o[i + 2].op = "store"
                              /\ o[i + 2].user = <<"[tool-output]">> /\ o[i + 2].assistant = out
                        /\ i + 3 <= Len(o) => o[i + 3].op = "history"
                        /\ i + 4 <= Len(o) =>
                              /\ o[i + 4].op = "rag"
                              /\ o[i + 4].query = buildFollowupPrompt(TurnPrompt(o, i), p, out)
                        /\ i + 5 <= Len(o) => o[i + 5].op = "model"
                        /\ (Returned(r) /\ i + 2 = Len(o)) => Exhausted(r)

\* A tool call succeeded in the first turn, both of its session deltas were stored,
\* and the second turn fetched its context with the extended prompt and called the
\* model.
C30_Witness ==
    \E r \in Req : \E i \in DOMAIN ops[r] :
        /\ StepOf(ops[r][i]) = "TOOL_RESULT" /\ i + 5 <= Len(ops[r])
        /\ ops[r][i + 1].ok /\ ops[r][i + 2].ok
        /\ ops[r][i + 2].assistant = MarshalToolOut([status |-> "ok", stdout |-> "bar", stderr |-> ""])
        /\ ops[r][i + 5].op = "model" /\ ops[r][i + 5].turn = 2
        /\ Len(ops[r][i + 4].query) > Len(basePrompt[r])

\* ---------------------------------------------------------------- C31
\* The args the specification gives a tool call parsed from plan text p: the args of
\* the tool object when that field is an object, the empty mapping otherwise.
SpecifiedArgs(p) ==
    LET a == MapGet(MapGet(JsonUnmarshal(p).raw, "tool"), "args")
    IN  IF a.k = "object" THEN a ELSE JObj(EmptyMap)

\* C31 as stated: the args of a parsed tool call, as held by the driver and as
\* recorded in the TOOL_CALL audit payload, are the specified args and never null,
\* and the args_json sent to the sandbox is their JSON.
C31_Original ==
    \A r \in Req : \A o \in {ops[r]} :
        /\ pc[r] = "tool_call" => toolCall[r].Args = SpecifiedArgs(plan[r])
        /\ \A i \in DOMAIN o :
              /\ StepOf(o[i]) = "TOOL_CALL" =>
                    /\ o[i].args.k # "nil"
                    /\ o[i].args = SpecifiedArgs(o[i - 1].text)
              /\ o[i].op = "tool" =>
                    /\ o[i].args_json # <<"null">>
                    /\ o[i].args_json = JsonMarshal(SpecifiedArgs(o[i - 2].text))

\* A tool call whose plan has no object-typed args: the TOOL_CALL payload carries null
\* args, while the args_json sent to the sandbox is the empty object.
C31_Witness ==
    \E r \in Req : \E i \in DOMAIN ops[r] :
        /\ StepOf(ops[r][i]) = "TOOL_CALL" /\ ops[r][i].args = GoNil
        /\ i < Len(ops[r]) /\ ops[r][i + 1].op = "tool"
        /\ ops[r][i + 1].args_json = <<"{}">>

\* ---------------------------------------------------------------- C32
\* The turns of a request, as stretches of its calls: a turn starts with its fetch of
\* the session history and ends before the next one.
TurnStarts(o) == OpsIn(o, "history")
TurnEnd(o, h) ==
    IF \E j \in TurnStarts(o) : j > h
       THEN (CHOOSE j \in TurnStarts(o) : j > h /\ \A k \in TurnStarts(o) : k > h => j <= k) - 1
       ELSE Len(o)
InTurn(o, h, kind) == {i \in h .. TurnEnd(o, h) : o[i].op = kind}
StepsInTurn(o, h, step) == {i \in h .. TurnEnd(o, h) : StepOf(o[i]) = step}
\* The turn starting at h is over: another turn started or AgentLoop returned.
TurnOver(r, o, h) == TurnEnd(o, h) < Len(o) \/ Returned(r)

\* What C32 says of model calls, tool calls, playbook writes and notifications.
CallBudget(r, o) ==
    /\ \A h \in TurnStarts(o) :
          /\ Cardinality(InTurn(o, h, "model")) <= 1
          /\ TurnOver(r, o, h) => Cardinality(InTurn(o, h, "model")) = 1
          /\ Cardinality(InTurn(o, h, "tool")) <= 1
          /\ \A i \in InTurn(o, h, "tool") :
                /\ i - 3 > h /\ o[i - 3].op = "model" /\ o[i - 3].ok
                /\ StepOf(o[i - 2]) = "PLAN_MODEL_RESPONSE"
                /\ ~tryParseToolCall(o[i - 2].text).nil
                /\ StepOf(o[i - 1]) = "TOOL_CALL"
    /\ \A i \in DOMAIN o : o[i].op \in {"model", "tool", "store"} => \E h \in TurnStarts(o) : h < i
    /\ CountOps(r, "playbook") <= 1
    /\ (Finalizing(r) /\ Returned(r)) => CountOps(r, "publish") = 3

\* C32 as stated: one model call and at most one tool call per turn, the tool call
\* only after a reply parsed as a tool call; exactly one session-delta write per turn;
\* at most one playbook write per request; three publishes when the request finalizes.
C32_Original ==
    \A r \in Req : \A o \in {ops[r]} :
        /\ CallBudget(r, o)
        /\ \A h \in TurnStarts(o) :
              /\ Cardinality(InTurn(o, h, "store")) <= 1
              /\ TurnOver(r, o, h) => Cardinality(InTurn(o, h, "store")) = 1

\* C32, amended: as stated, except that the number of session-delta writes of a turn
\* depends on how the turn ends: one when it finalizes, two (the plan, then the tool
\* output) when its tool call succeeds, none when the model call or the tool call fails.
C32_Amended ==
    \A r \in Req : \A o \in {ops[r]} :
        /\ CallBudget(r, o)
        /\ \A h \in TurnStarts(o) : \A n \in {Cardinality(InTurn(o, h, "store"))} :
              /\ n <= 2
              /\ StepsInTurn(o, h, "PLAN_END") # {} => n <= 1
              /\ (StepsInTurn(o, h, "TOOL_ERROR") # {} \/ StepsInTurn(o, h, "PLAN_ERROR") # {})
                    => n = 0
              /\ TurnOver(r, o, h) =>
                    /\ StepsInTurn(o, h, "PLAN_END") # {} => n = 1
                    /\ StepsInTurn(o, h, "TOOL_RESULT") # {} => n = 2

\* A request with a turn of two session-delta writes (its tool call succeeded), a
\* turn of one (it finalized), one playbook write and three publishes.
C32_Witness ==
    \E r \in Req : \E h1, h2 \in TurnStarts(ops[r]) :
        /\ Returned(r) /\ Finalizing(r) /\ h1 < h2
        /\ Cardinality(InTurn(ops[r], h1, "store")) = 2
        /\ Cardinality(InTurn(ops[r], h1, "tool")) = 1
        /\ Cardinality(InTurn(ops[r], h2, "store")) = 1
        /\ CountOps(r, "playbook") = 1 /\ CountOps(r, "publish") = 3

\* ---------------------------------------------------------------- C33
\* The planner input with session-history lines h, RAG blocks g and prompt p.
ThreeSections(h, g, p) ==
    <<"<session_history>\n">> \o h \o <<"</session_history>\n\n">>
    \o <<"<rag_context>\n">> \o g \o <<"</rag_context>\n\n">>
    \o <<"<user_prompt>\n">> \o p \o <<"\n</user_prompt>\n">>

\* C33: every turn's fetch of the session history is followed by its RAG fetch and
\* that by its model call, whichever of the fetches failed.  The planner input handed
\* to the model call is made of the sections <session_history>, <rag_context>,
\* <user_prompt> in this order: the first holds what the memory service answered, or
\* nothing when that fetch failed; the second likewise for the RAG fetch; the third
\* holds the current working prompt (which was also the RAG query).
C33_ContextBestEffort ==
    \A r \in Req : \A o \in {ops[r]} :
        /\ \A i \in DOMAIN o :
              /\ (o[i].op = "history" /\ i + 1 <= Len(o)) => o[i + 1].op = "rag"
              /\ (o[i].op = "rag" /\ i + 1 <= Len(o)) => o[i + 1].op = "model"
              /\ o[i].op = "rag" => i > 1 /\ o[i - 1].op = "history"
              /\ o[i].op = "model" => i > 2 /\ o[i - 1].op = "rag"
        /\ pc[r] = "rag" <=> (o # <<>> /\ o[Len(o)].op = "history")
        /\ pc[r] = "get_plan" <=> (o # <<>> /\ o[Len(o)].op = "rag")
        /\ pc[r] \in {"rag", "get_plan"} => ~Returned(r)
        /\ pc[r] = "get_plan" =>
              \A n \in {Len(o)} :
                  /\ o[n - 1].op = "history"
                  /\ o[n].query = prompt[r]
                  /\ plannerInput[r] =
                        ThreeSections(
                            IF o[n - 1].ok THEN HistoryLines(env.script.history) ELSE <<>>,
                            IF o[n].ok THEN MatchBlocks(env.script.rag.matches) ELSE <<>>,
                            prompt[r])

\* Both fetches of a turn failed on their own (the context was not cancelled) although
\* the memory service held a history and a match, and the model was called and
\* answered.
C33_Witness ==
    \E r \in Req : \E i \in DOMAIN ops[r] :
        /\ ops[r][i].op = "history" /\ ~ops[r][i].ok
        /\ i + 2 <= Len(ops[r])
        /\ ops[r][i + 1].op = "rag" /\ ~ops[r][i + 1].ok
        /\ ops[r][i + 2].op = "model" /\ ops[r][i + 2].ok
        /\ ~cancelled[r]
        /\ env.script.history # <<>> /\ env.script.rag.matches # <<>>

\* ---------------------------------------------------------------- C34
\* C34 as stated: a process whose dial of the model gateway or of the sandbox failed
\* did not start, whereas a failure to open the audit database or to reach the broker
\* leaves a process that started.
C34_Original ==
    /\ planner.failedAt \in {"modelConn", "rustConn"} => planner.state = "failed"
    /\ planner.failedAt = "auditDB" => planner.state # "failed"
    /\ (planner.starts > 0 /\ planner.failedAt = "none" /\ ~planner.pingOk) =>
          planner.state # "failed"

\* The audit database could not be opened: NewPlanner closed the three connections
\* it had dialled and returned an error, and no request was served.
C34_Witness ==
    /\ planner.state = "failed" /\ planner.failedAt = "auditDB"
    /\ \A x \in {"modelConn", "memoryConn", "rustConn"} : planner.res[x] = "closed"
    /\ planner.res["auditDB"] = "none"
    /\ \A r \in Req : ops[r] = <<>>

\* ---------------------------------------------------------------- C35
\* The index in o of the k-th call that stands for `step`.
NthStep(o, step, k) ==
    CHOOSE i \in DOMAIN o :
        StepOf(o[i]) = step /\ Cardinality({j \in 1 .. i : StepOf(o[j]) = step}) = k
CountSteps(o, step) == Cardinality({i \in DOMAIN o : StepOf(o[i]) = step})
\* The loop's locals exist: PLAN_START and STARTED are behind.
InLoopBody(r) == playbookSeq[r] # <<>>
\* The final plan has been appended to the playbook sequence.
FinalAppended(r) == pc[r] = "plan_end" \/ Finalizing(r)

\* C35: from the set-up of the loop on, the playbook sequence is {user, original
\* prompt}, then one pair ({assistant, plan}, {tool_result, output}) per successful
\* tool call in turn order, then {assistant, final plan} once the request finalizes:
\* its length is 1 + 2 * (successful tool calls), plus one at finalization.
\* had_tool_step is true exactly when there was a successful tool call, so at
\* finalization with had_tool_step the length is at least 4 and the playbook is
\* POSTed with the whole sequence; without had_tool_step it is not POSTed.
C35_PlaybookShape ==
    \A r \in Req : InLoopBody(r) =>
        \A o \in {ops[r]}, seq \in {playbookSeq[r]} : \A n \in {CountSteps(o, "TOOL_RESULT")} :
            /\ seq[1] = [role |-> "user", content |-> basePrompt[r]]
            /\ Len(seq) = 1 + 2 * n + (IF FinalAppended(r) THEN 1 ELSE 0)
            /\ \A k \in 1 .. n : \A i \in {NthStep(o, "TOOL_RESULT", k)} :
                  /\ StepOf(o[i - 3]) = "PLAN_MODEL_RESPONSE"
                  /\ seq[2 * k] = [role |-> "assistant", content |-> o[i - 3].text]
                  /\ seq[2 * k + 1] = [role |-> "tool_result", content |-> o[i].text]
            /\ FinalAppended(r) => seq[Len(seq)] = [role |-> "assistant", content |-> plan[r]]
            /\ hadToolStep[r] <=> n >= 1
            /\ (FinalAppended(r) /\ hadToolStep[r]) => Len(seq) >= 4
            /\ CountOps(r, "playbook") = 0 \/ (Finalizing(r) /\ hadToolStep[r])
            /\ (Finalizing(r) /\ hadToolStep[r] /\ pc[r] # "playbook") =>
                  /\ CountOps(r, "playbook") = 1
                  /\ \A i \in OpsIn(o, "playbook") : o[i].history_sequence = seq

\* A request that finalized after one successful tool call: the sequence has four
\* entries (user, assistant, tool_result, assistant) and was POSTed as it is.
C35_Witness ==
    \E r \in Req : \E i \in OpsIn(ops[r], "playbook") :
        /\ Returned(r) /\ Finalizing(r) /\ hadToolStep[r]
        /\ CountSteps(ops[r], "TOOL_RESULT") = 1 /\ Len(playbookSeq[r]) = 4
        /\ [k \in 1 .. 4 |-> ops[r][i].history_sequence[k].role]
              = <<"user", "assistant", "tool_result", "assistant">>

\* ---------------------------------------------------------------- C36
\* Request r takes a step of the failing part of a tool turn: the sandbox call fails,
\* or the failure is recorded and fed back.
ToolFailureStep(r) ==
    \/ pc[r] = "execute_tool" /\ pc'[r] = "tool_error"
    \/ pc[r] = "tool_error" /\ pc'[r] # "tool_error"

\* C36: the steps of a failing tool call leave had_tool_step and the playbook sequence
\* as they are and store nothing in the session; the step that records TOOL_ERROR
\* appends "\n\nTool error: " and the error text to the working prompt and nothing
\* else.  So a turn with TOOL_ERROR has no session-delta write, the next turn's RAG
\* query is the failed turn's query followed by the error text (the failed plan is
\* not added to it), and a request without a successful tool call that finalizes has
\* had_tool_step false, the playbook sequence {user, assistant} and no playbook POST.
C36_ToolFailureFrame ==
    /\ [](\A r \in Req : \A o \in {ops[r]} :
            /\ \A i \in DOMAIN o : StepOf(o[i]) = "TOOL_ERROR" =>
                  /\ o[i - 1].op = "tool" /\ ~o[i - 1].ok
                  /\ StepOf(o[i - 3]) = "PLAN_MODEL_RESPONSE" /\ o[i - 5].op = "rag"
                  /\ \A h \in TurnStarts(o) :
                        (h < i /\ i <= TurnEnd(o, h)) => InTurn(o, h, "store") = {}
                  /\ i + 1 <= Len(o) => o[i + 1].op = "history"
                  /\ i + 2 <= Len(o) =>
                        /\ o[i + 2].query = o[i - 5].query \o <<"\n\nTool error: ">> \o o[i].text
                        /\ Mentions(o[i + 2].query, o[i - 3].text)
                              => Mentions(o[i - 5].query, o[i - 3].text)
            /\ (Finalizing(r) /\ CountSteps(o, "TOOL_RESULT") = 0) =>
                  /\ ~hadToolStep[r]
                  /\ CountOps(r, "playbook") = 0
                  /\ Len(playbookSeq[r]) = 2)
    /\ [][\A r \in Req : ToolFailureStep(r) =>
            /\ hadToolStep'[r] = hadToolStep[r]
            /\ playbookSeq'[r] = playbookSeq[r]
            /\ CountOps(r, "store")' = CountOps(r, "store")
            /\ pc[r] = "execute_tool" => prompt'[r] = prompt[r]
            /\ pc[r] = "tool_error" =>
                  /\ prompt'[r] = prompt[r] \o <<"\n\nTool error: ">> \o callErr[r]
                  /\ Len(ops'[r]) = Len(ops[r]) + 1
                  /\ StepOf(ops'[r][Len(ops'[r])]) = "TOOL_ERROR"]_vars

\* The only tool call of a request failed, the next turn answered with text: the
\* request finalized with the error text in its working prompt, without a playbook
\* POST and with a single session-delta write, the final one.
C36_Witness ==
    \E r \in Req :
        /\ Returned(r) /\ Finalizing(r)
        /\ CountSteps(ops[r], "TOOL_ERROR") = 1 /\ CountSteps(ops[r], "TOOL_RESULT") = 0
        /\ ~hadToolStep[r] /\ Len(playbookSeq[r]) = 2
        /\ CountOps(r, "playbook") = 0 /\ CountOps(r, "store") = 1
        /\ Mentions(prompt[r], <<"\n\nTool error: ">>)

\* ---------------------------------------------------------------- C37
\* The model client of this run is the model gateway of this repository.
GatewayRun == "gateway" \in DOMAIN env
\* The plan text decodes to a JSON object with exactly the keys model_type (a
\* string), steps (a non-empty list) and prompt (a string).
WellFormedPlan(text) ==
    \A u \in {JsonUnmarshal(text)} :
        /\ ~u.err /\ u.raw.k = "object"
        /\ DOMAIN u.raw.m = {"model_type", "steps", "prompt"}
        /\ u.raw.m["model_type"].k = "string" /\ u.raw.m["prompt"].k = "string"
        /\ u.raw.m["steps"].k = "array" /\ Len(u.raw.m["steps"].a) >= 1

\* C37: whatever the LLM writes, every plan server.GetPlan can return for the planner
\* input at hand is such an object, has no "tool" key, and tryParseToolCall returns
\* none on it.  So a request served with the gateway as model client records no
\* TOOL_CALL, dispatches no tool, POSTs no playbook and calls the model once; when
\* the model call succeeds it finalizes on turn 1 and returns that plan, and it never
\* runs out of turns.
C37_GatewayNeverCallsTools ==
    GatewayRun => \A r \in Req : \A o \in {ops[r]} :
        /\ pc[r] = "get_plan" =>
              \A text \in PlanAnswers(r) :
                  /\ WellFormedPlan(text)
                  /\ "tool" \notin DOMAIN JsonUnmarshal(text).raw.m
                  /\ tryParseToolCall(text).nil
        /\ pc[r] = "model_response" => WellFormedPlan(plan[r])
        /\ CountSteps(o, "TOOL_CALL") = 0 /\ CountOps(r, "tool") = 0
        /\ CountOps(r, "playbook") = 0 /\ CountOps(r, "model") <= 1
        /\ pc[r] \notin {"tool_call", "execute_tool", "tool_result", "tool_error"}
        /\ ~hadToolStep[r]
        /\ Returned(r) =>
              /\ turn[r] = 1 /\ ~Exhausted(r)
              /\ ret[r].err = NoErr =>
                    /\ Finalizing(r) /\ WellFormedPlan(ret[r].result)
                    /\ ret[r].result = o[PlanEndAt(r)].text

\* The LLM behind the gateway wrote a tool call; the gateway wrapped it as the single
\* step of its plan, and the request finalized on turn 1 although two turns were
\* allowed.
C37_Witness ==
    \E r \in Req :
        /\ GatewayRun /\ Returned(r) /\ Finalizing(r) /\ turn[r] = 1 /\ maxTurns[r] = 2
        /\ Mentions(ret[r].result, <<"[", "\"", JsonEscape(ToolSearch), "\"", "]">>)
        /\ CountOps(r, "tool") = 0

\* ---------------------------------------------------------------- C38
\* The publishes of STARTED among the calls o.
StartedAt(o) == {i \in DOMAIN o : o[i].op = "publish" /\ o[i].form = "status"
                                  /\ o[i].text = <<"STARTED">>}

\* C38: the first call of AgentLoop is the record of PLAN_START and the second the
\* publish of STARTED, ahead of every context fetch and model call; STARTED is
\* published at no other place, so exactly once by the time AgentLoop returns,
\* whether it returns a final answer, a model error or the sentinel of the exhausted
\* budget, and whether or not the context was cancelled on the way.  When it returns a
\* model error or the sentinel, STARTED is the only notification it published.
C38_StartedOnce ==
    \A r \in Req : \A o \in {ops[r]} :
        /\ Len(o) >= 1 => StepOf(o[1]) = "PLAN_START"
        /\ StartedAt(o) \subseteq {2}
        /\ Len(o) >= 2 => StartedAt(o) = {2}
        /\ pc[r] \in {"loop", "history"} => StartedAt(o) = {2}
        /\ \A i \in DOMAIN o : o[i].op \in {"history", "rag", "model", "tool", "store"} => i > 2
        /\ Returned(r) =>
              /\ StartedAt(o) = {2}
              /\ (ret[r].err # NoErr \/ Exhausted(r)) => OpsIn(o, "publish") = {2}
              /\ (ret[r].err = NoErr /\ ~Exhausted(r)) => Cardinality(OpsIn(o, "publish")) = 3

\* The request was cancelled before STARTED was due; STARTED was published all the
\* same, the model call then failed, and it remained the only notification.
C38_Witness ==
    \E r \in Req :
        /\ Returned(r) /\ ret[r].err # NoErr /\ cancelled[r]
        /\ StartedAt(ops[r]) = {2} /\ ~ops[r][2].ok
        /\ OpsIn(ops[r], "publish") = {2}
        /\ CountType(r, "PLAN_ERROR") = 1

\* ---------------------------------------------------------------- C39
\* C39: when NewPlanner has failed, it failed at one of its four acquisition steps;
\* what it had acquired are the resources that precede that step, in order; it closed
\* them in the reverse of that order; no resource is open; and the process has no
\* Planner: it serves no request, and a Close on it releases nothing.
C39_FailedStartupReleases ==
    /\ [](planner.state = "failed" =>
            /\ planner.failedAt \in FatalSteps
            /\ Acquired(planner.trace) = SubSeq(Resources, 1, IndexOf(planner.failedAt) - 1)
            /\ Released(planner.trace) = Reverse(Acquired(planner.trace))
            /\ Len(planner.trace) = 2 * Len(Acquired(planner.trace))
            /\ \A x \in ResourceNames : planner.res[x] # "open"
            /\ \A x \in ResourceNames :
                  planner.res[x] = "closed" <=> IndexOf(x) < IndexOf(planner.failedAt))
    /\ [][planner.state = "failed" =>
            /\ ops' = ops /\ pc' = pc
            /\ planner'.res = planner.res /\ planner'.trace = planner.trace]_vars

\* The sandbox could not be dialled: the memory connection and then the model
\* connection were closed, and a Close on the absent Planner changed nothing.
C39_Witness ==
    /\ planner.state = "failed" /\ planner.failedAt = "rustConn"
    /\ Acquired(planner.trace) = <<"modelConn", "memoryConn">>
    /\ Released(planner.trace) = <<"memoryConn", "modelConn">>
    /\ planner.closeCalls >= 1

\* ---------------------------------------------------------------- C40
\* C40: the original prompt (the prompt of the request body, kept as basePrompt) is a
\* prefix of the working prompt in every state of a request and of the RAG query of
\* every turn; a step of the request leaves the working prompt as it is or appends
\* to it, and never changes the original prompt once the request is accepted.  The
\* text recorded in PLAN_START, the content of the first playbook entry and the
\* prompt field of the playbook POST (whose first entry is that same entry) are the
\* original prompt, however far the working prompt has grown.
C40_OriginalPromptKept ==
    /\ [](\A r \in Req : \A o \in {ops[r]} :
            /\ IsPrefix(basePrompt[r], prompt[r])
            /\ Started(r) => (o # <<>> => basePrompt[r] = planReq[r].Prompt)
            /\ \A i \in DOMAIN o :
                  /\ o[i].op = "rag" => IsPrefix(basePrompt[r], o[i].query)
                  /\ StepOf(o[i]) = "PLAN_START" => o[i].text = basePrompt[r]
                  /\ o[i].op = "playbook" =>
                        /\ o[i].prompt = basePrompt[r]
                        /\ o[i].history_sequence[1] = [role |-> "user", content |-> basePrompt[r]]
            /\ playbookSeq[r] # <<>> =>
                  playbookSeq[r][1] = [role |-> "user", content |-> basePrompt[r]])
    /\ [][\A r \in Req :
            /\ IsPrefix(prompt[r], prompt'[r])
            /\ pc[r] # "idle" => basePrompt'[r] = basePrompt[r]]_vars

\* A finalized request whose working prompt grew by a tool turn: the playbook was
\* POSTed with the original prompt, which the working prompt no longer equals.
C40_Witness ==
    \E r \in Req : \E i \in OpsIn(ops[r], "playbook") :
        /\ Returned(r) /\ Finalizing(r)
        /\ Len(prompt[r]) > Len(basePrompt[r]) /\ basePrompt[r] # <<>>
        /\ ops[r][i].prompt = basePrompt[r] /\ ops[r][i].prompt # prompt[r]
        /\ ops[r][1].text = basePrompt[r]

====
